---- MODULE Spec2Model ----
(***************************************************************************)
(* SignalDesk: feedback ingestion, classification, retrieval and the       *)
(* evaluation harness (src/src/handlers.ts, src/src/ai.ts, src/src/data.ts,*)
(* src/src/db.ts, vectorize.ts, utils.ts, constants.ts).                   *)
(*                                                                         *)
(* Representation.                                                         *)
(*  - ids are integers: a golden record's own id is 1, 2, ...; 0 is an     *)
(*    absent (falsy) id; the k-th value of crypto.randomUUID() is -k.      *)
(*  - a nullable value is the empty tuple << >> (NULL / undefined) or the  *)
(*    one-element tuple <<v>>.                                             *)
(*  - a string is a record: lead/trail count the surrounding whitespace,   *)
(*    words is the content as a sequence of lower-case words, caps says    *)
(*    that it has upper-case letters, wide that it has runs of several     *)
(*    white-space characters inside, len is the number of characters of    *)
(*    the content.                                                         *)
(*  - a number returned by the model is kept in tenths (7 is 0.7).         *)
(*  - a rate (a quotient) is the pair <<numerator, denominator>>.          *)
(***************************************************************************)
EXTENDS Integers, Sequences, FiniteSets, TLC

(* ---------------------------------------------------------------------- *)
(* Bounds of the model                                                     *)
(* ---------------------------------------------------------------------- *)
\* number of records of the golden dataset
MaxGolden == 4
\* number of records ingested in production before the run (uuid ids)
MaxIngested == 6
\* number of values crypto.randomUUID() returns after that
MaxFresh == 2
\* number of evaluation invocations
MaxRuns == 1
\* length of an item list posted to the seed endpoint
MaxSeedLen == 2
\* number of analyses stored through the analyze endpoint
MaxAnalyses == 2
\* evaluation invocations where the failing cases of several runs are read
MaxLatestRuns == 3
\* ids and pairing keys of the records buildDuplicatePairs is applied to
MaxPairId == 3
MaxPairKey == 2

(* ---------------------------------------------------------------------- *)
(* constants.ts                                                            *)
(* ---------------------------------------------------------------------- *)
MAX_TITLE_CHARS == 200
MAX_BODY_CHARS == 8000
MAX_TIER_CHARS == 50
\* topK of the query of searchApi (handlers.ts:246)
SEARCH_TOP_K == 5
\* LIMIT of the text match of searchApi (handlers.ts:272)
TEXT_LIMIT == 5
\* the results scored by the recall pass (handlers.ts:315)
RECALL_TOP == 3
\* handlers.ts:369: LIMIT 10
LATEST_LIMIT == 10

THEME_TAXONOMY ==
  { "Docs confusion", "Billing/pricing", "Performance/latency",
    "Reliability/outage", "Authentication/access", "Dashboard UX",
    "API ergonomics", "Limits/quotas", "Feature request" }

ALLOWED_SOURCES ==
  { <<"app">>, <<"email">>, <<"slack">>, <<"intercom">>, <<"web">>, <<"api">>,
    <<"golden">>, <<"discord">>, <<"twitter">>, <<"github">>,
    <<"github", "issue">>, <<"community", "forum">>, <<"salesforce">>,
    <<"salesforce", "note">>, <<"hacker", "news">>, <<"zendesk">>,
    <<"stackoverflow">>, <<"stack", "overflow">>, <<"reddit">>,
    <<"g2", "crowd">>, <<"spambot">> }

(* ---------------------------------------------------------------------- *)
(* Nullable values and strings                                             *)
(* ---------------------------------------------------------------------- *)
Null == << >>
Some(v) == <<v>>
IsNull(x) == x = << >>
Val(x) == x[1]

Str(words, len) ==
  [lead |-> 0, words |-> words, caps |-> FALSE, wide |-> FALSE, len |-> len, trail |-> 0]
EmptyStr == Str(<< >>, 0)
\* String.prototype.length
StrLen(s) == s.lead + s.len + s.trail
\* String.prototype.trim(): a string of white space only becomes empty
Trim(s) == [s EXCEPT !.lead = 0, !.trail = 0]
\* String.prototype.toLowerCase()
ToLower(s) == [s EXCEPT !.caps = FALSE]
\* replace(/\s+/g, ' ')
CollapseSpaces(s) ==
  [s EXCEPT !.wide = FALSE,
            !.lead = IF s.lead > 0 THEN 1 ELSE 0,
            !.trail = IF s.trail > 0 THEN 1 ELSE 0]
\* SQL: column LIKE '%q%', q a single word (LIKE ignores the case of ASCII letters)
Like(s, q) == \E i \in 1..Len(s.words) : s.words[i] = q

(* ---------------------------------------------------------------------- *)
(* utils.ts                                                                *)
(* ---------------------------------------------------------------------- *)
\* requireBinding: the binding is present
requireBinding(binding) == binding

\* faulty variant: the thresholds themselves fall into the lower class
toSeverityAbove(urgencyScore) ==
  IF urgencyScore > 70 THEN "high" ELSE IF urgencyScore > 40 THEN "medium" ELSE "low"

toSeverity(urgencyScore) ==
  IF urgencyScore >= 70 THEN "high" ELSE IF urgencyScore >= 40 THEN "medium" ELSE "low"

themeIsValid(theme) == theme \in THEME_TAXONOMY

\* normalizeText: value ? value.trim() : ''
normalizeText(value) == IF IsNull(value) THEN EmptyStr ELSE Trim(Val(value))

\* normalizeSource: not a string -> '', else trim, lower-case, collapse white space
normalizeSource(value) ==
  IF IsNull(value) THEN EmptyStr ELSE CollapseSpaces(ToLower(Trim(Val(value))))

\* a nullable string as a JS "x || undefined" / "x || null"
OrNull(s) == IF StrLen(s) = 0 THEN Null ELSE Some(s)

\* validateFeedbackInput: error, or the normalised fields
validateFeedbackInput(input) ==
  LET source == normalizeSource(input.source)
      title == normalizeText(input.title)
      body == normalizeText(input.body)
      customerTier == normalizeText(input.customer_tier)
      bad == \/ ~(source.words \in ALLOWED_SOURCES /\ source.lead = 0 /\ source.trail = 0
                  /\ ~source.caps /\ ~source.wide)
             \/ StrLen(body) = 0
             \/ StrLen(body) > MAX_BODY_CHARS
             \/ StrLen(title) > MAX_TITLE_CHARS
             \/ StrLen(customerTier) > MAX_TIER_CHARS
  IN [error |-> bad,
      value |-> [source |-> source, title |-> OrNull(title), body |-> body,
                 customer_tier |-> OrNull(customerTier)]]

(* ---------------------------------------------------------------------- *)
(* ai.ts: the payload of a model response and its validation               *)
(* ---------------------------------------------------------------------- *)
RequiredKeys ==
  { "summary", "theme", "sentiment_label", "sentiment_score", "urgency_score",
    "proposed_fix", "suggested_owner" }

\* a JSON string value (or a value of another type), a number as Number(x) sees it
JStr(s) == [isString |-> TRUE, s |-> s]
JNotStr == [isString |-> FALSE, s |-> EmptyStr]
JTheme(name) == [isString |-> TRUE, name |-> name]
JNum(tenths) == [finite |-> TRUE, tenths |-> tenths]
JNaN == [finite |-> FALSE, tenths |-> 0]

Padded(words, len) == [Str(words, len) EXCEPT !.lead = 1, !.trail = 2]
Blank == [EmptyStr EXCEPT !.lead = 2]

\* Math.round of a number kept in tenths
MathRound(tenths) == (tenths + 5) \div 10

\* faulty variant: any string is taken as a theme
validateAnalysisPayloadAnyTheme(parsed) ==
  LET payload == parsed.payload
      Err(msg) == [value |-> Null, error |-> Some(msg)]
  IN IF ~parsed.isObject THEN Err("Response is not a JSON object")
     ELSE IF RequiredKeys \ payload.keys # {} THEN Err("Missing key")
     ELSE IF ~payload.summary.isString \/ StrLen(Trim(payload.summary.s)) = 0
       THEN Err("Invalid summary")
     ELSE IF ~payload.theme.isString THEN Err("Invalid theme")
     ELSE IF ~payload.sentiment_label.isString
             \/ StrLen(Trim(payload.sentiment_label.s)) = 0
       THEN Err("Invalid sentiment_label")
     ELSE IF ~payload.sentiment_score.finite \/ payload.sentiment_score.tenths < 0
             \/ payload.sentiment_score.tenths > 10
       THEN Err("Invalid sentiment_score")
     ELSE IF ~payload.urgency_score.finite \/ payload.urgency_score.tenths < 0
             \/ payload.urgency_score.tenths > 1000
       THEN Err("Invalid urgency_score")
     ELSE IF ~payload.proposed_fix.isString THEN Err("Invalid proposed_fix")
     ELSE IF ~payload.suggested_owner.isString THEN Err("Invalid suggested_owner")
     ELSE [value |-> Some([summary |-> Trim(payload.summary.s),
                           theme |-> payload.theme.name,
                           sentiment_label |-> Trim(payload.sentiment_label.s),
                           sentiment_score |-> payload.sentiment_score.tenths,
                           urgency_score |-> MathRound(payload.urgency_score.tenths),
                           proposed_fix |-> Trim(payload.proposed_fix.s),
                           suggested_owner |-> Trim(payload.suggested_owner.s)]),
           error |-> Null]

\* validateAnalysisPayload: {value} or {error}
validateAnalysisPayload(parsed) ==
  LET payload == parsed.payload
      Err(msg) == [value |-> Null, error |-> Some(msg)]
  IN IF ~parsed.isObject THEN Err("Response is not a JSON object")
     ELSE IF RequiredKeys \ payload.keys # {} THEN Err("Missing key")
     ELSE IF ~payload.summary.isString \/ StrLen(Trim(payload.summary.s)) = 0
       THEN Err("Invalid summary")
     ELSE IF ~payload.theme.isString \/ ~themeIsValid(payload.theme.name)
       THEN Err("Invalid theme")
     ELSE IF ~payload.sentiment_label.isString
             \/ StrLen(Trim(payload.sentiment_label.s)) = 0
       THEN Err("Invalid sentiment_label")
     ELSE IF ~payload.sentiment_score.finite \/ payload.sentiment_score.tenths < 0
             \/ payload.sentiment_score.tenths > 10
       THEN Err("Invalid sentiment_score")
     ELSE IF ~payload.urgency_score.finite \/ payload.urgency_score.tenths < 0
             \/ payload.urgency_score.tenths > 1000
       THEN Err("Invalid urgency_score")
     ELSE IF ~payload.proposed_fix.isString THEN Err("Invalid proposed_fix")
     ELSE IF ~payload.suggested_owner.isString THEN Err("Invalid suggested_owner")
     ELSE [value |-> Some([summary |-> Trim(payload.summary.s),
                           theme |-> payload.theme.name,
                           sentiment_label |-> Trim(payload.sentiment_label.s),
                           sentiment_score |-> payload.sentiment_score.tenths,
                           urgency_score |-> MathRound(payload.urgency_score.tenths),
                           proposed_fix |-> Trim(payload.proposed_fix.s),
                           suggested_owner |-> Trim(payload.suggested_owner.s)]),
           error |-> Null]

\* A response of the model: the call throws, or returns a text. The text is
\* no JSON at all ("text"), or a JSON value, bare, inside a code fence, or
\* with prose around it.
Response(kind, wrap, isObject, payload) ==
  [kind |-> kind, wrap |-> wrap, parsed |-> [isObject |-> isObject, payload |-> payload],
   message |-> "AI request failed"]

\* The cleanup of ai.ts:118-123 followed by JSON.parse: the fence is
\* stripped; the span from the first "{" to the last "}" replaces the text,
\* so prose around an object is dropped and prose around another JSON value
\* stays and makes JSON.parse throw.
JsonParses(response) ==
  /\ response.kind = "json"
  /\ response.wrap = "prose" => response.parsed.isObject

\* The tail of runAiAnalysis and of the retry (ai.ts:118-132, 184-198)
CleanParseValidate(response, invalidJson) ==
  IF ~JsonParses(response)
  THEN [analysis |-> Null, error |-> Some(invalidJson), raw |-> Some(response)]
  ELSE LET validated == validateAnalysisPayload(response.parsed)
       IN IF ~IsNull(validated.value)
          THEN [analysis |-> validated.value, error |-> Null, raw |-> Some(response)]
          ELSE [analysis |-> Null, error |-> validated.error, raw |-> Some(response)]

\* The result of one call of the model (ai.ts:102-116, 168-182): for a call
\* that throws, the message of the Error thrown ('AI request failed' when the
\* value thrown is no Error), else the validated text
AttemptResult(response, invalidJson) ==
  IF response.kind = "throw"
  THEN [analysis |-> Null, error |-> Some(response.message), raw |-> Null]
  ELSE CleanParseValidate(response, invalidJson)

(* ---------------------------------------------------------------------- *)
(* data.ts                                                                 *)
(* ---------------------------------------------------------------------- *)
RECURSIVE SortIds(_)
\* Array.prototype.sort() of a set of distinct ids
SortIds(S) ==
  IF S = {} THEN << >>
  ELSE LET m == CHOOSE x \in S : \A y \in S : x <= y
       IN <<m>> \o SortIds(S \ {m})

\* the keys of the Map "groups", in the order of their first insertion
RECURSIVE GroupKeys(_)
GroupKeys(items) ==
  IF items = << >> THEN << >>
  ELSE LET n == Len(items)
           front == GroupKeys(SubSeq(items, 1, n - 1))
           item == items[n]
       IN IF item.duplicate_pair_id = 0 \/ item.id = 0 THEN front
          ELSE IF \E j \in 1..Len(front) : front[j] = item.duplicate_pair_id THEN front
          ELSE Append(front, item.duplicate_pair_id)

\* faulty variant: every id is coupled with the next one, (1st,2nd), (2nd,3rd), ...
GroupPairsOverlapping(items, key) ==
  LET unique == SortIds({ items[i].id : i \in { j \in 1..Len(items) :
                            items[j].duplicate_pair_id = key /\ items[j].id # 0 } })
  IN [k \in 1..(IF unique = << >> THEN 0 ELSE Len(unique) - 1) |-> <<unique[k], unique[k + 1]>>]

\* the pairs of one group: unique sorted ids coupled (1st,2nd), (3rd,4th), ...
GroupPairs(items, key) ==
  LET unique == SortIds({ items[i].id : i \in { j \in 1..Len(items) :
                            items[j].duplicate_pair_id = key /\ items[j].id # 0 } })
  IN [k \in 1..(Len(unique) \div 2) |-> <<unique[2 * k - 1], unique[2 * k]>>]

RECURSIVE ConcatPairs(_, _)
ConcatPairs(items, keys) ==
  IF keys = << >> THEN << >>
  ELSE GroupPairs(items, Head(keys)) \o ConcatPairs(items, Tail(keys))

buildDuplicatePairs(items) == ConcatPairs(items, GroupKeys(items))

\* GOLDEN_SET: the golden records without duplicate_pair_id (data.ts:30)
StripGolden(records) ==
  [i \in 1..Len(records) |->
     [id |-> records[i].id, source |-> records[i].source, title |-> records[i].title,
      body |-> records[i].body, customer_tier |-> records[i].customer_tier,
      created_at |-> records[i].created_at]]

(* ---------------------------------------------------------------------- *)
(* The golden datasets and seed lists the model draws from                 *)
(* ---------------------------------------------------------------------- *)
\* a date string: valid says whether Date.parse yields a number, t is the instant
DateStr(valid, t) == [valid |-> valid, t |-> t]

\* A seed item of one of these shapes:
\*  "ok"     valid fields that need normalising (as 'GitHub Issue' does)
\*  "blank"  a body of white space only: fails validation
\*  "nodate" valid fields, no created_at
SeedItemOf(id, shape, key) ==
  [id |-> id,
   source |-> Some([Str(<<"github", "issue">>, 12) EXCEPT !.caps = TRUE]),
   title |-> IF shape = "nodate" THEN Null ELSE Some(Str(<<"tail", "blank">>, 10)),
   body |-> IF shape = "blank" THEN Some(Blank)
            ELSE Some(Padded(<<"wrangler", "tail", "logs">>, 18)),
   customer_tier |-> IF shape = "nodate" THEN Null ELSE Some(Str(<<"pro">>, 3)),
   created_at |-> IF shape = "nodate" THEN Null ELSE Some(DateStr(TRUE, 0 - id)),
   duplicate_pair_id |-> key]

ItemShapes == { "ok", "blank", "nodate" }

\* how the pairing keys are laid over the records 1..n
Pairings == { "none", "adjacent", "one" }
PairKey(pairing, i) ==
  CASE pairing = "none" -> 0
    [] pairing = "adjacent" -> (i + 1) \div 2
    [] OTHER -> 1

\* Golden datasets: the records have the ids 1..n in order, at most one of
\* them has no id or does not have the "ok" shape.
GoldenDatasets ==
  { [i \in 1..n |-> SeedItemOf(IF i = odd[1] /\ odd[2] = "noid" THEN 0 ELSE i,
                               IF i = odd[1] /\ odd[2] # "noid" THEN odd[2] ELSE "ok",
                               PairKey(pairing, i))] :
      n \in 0..MaxGolden, odd \in (0..MaxGolden) \X { "blank", "nodate", "noid" },
      pairing \in Pairings }

(* ---------------------------------------------------------------------- *)
(* State                                                                   *)
(* ---------------------------------------------------------------------- *)
VARIABLES
  env,             \* the bindings of the deployment: [DB, AI, VEC]
  GOLDEN_RECORDS,  \* golden_dataset.json, as imported by data.ts
  feedback,        \* table feedback: a set of rows
  analysis,        \* table analysis: a set of rows
  eval_runs,       \* table eval_runs: rows in rowid order
  eval_cases,      \* table eval_cases: rows in rowid order
  vec,             \* the Vectorize index: a set of entries [id, metadata]
  nextUuid,        \* the number of values crypto.randomUUID() has returned
  clock,           \* the instant nowIso() returns next
  started,         \* the number of evaluation invocations started
  lastSeed,        \* history: the last seed request that returned its lists
  pc,              \* per request: the await it is suspended at
  loc              \* per request: its local variables

vars ==
  << env, GOLDEN_RECORDS, feedback, analysis, eval_runs, eval_cases, vec,
     nextUuid, clock, started, lastSeed, pc, loc >>

\* requests in flight at the same time
Procs == { "p1", "p2" }

GOLDEN_SET == StripGolden(GOLDEN_RECORDS)
GOLDEN_PAIRS == buildDuplicatePairs(GOLDEN_RECORDS)

\* the locals of a request that has not started
IdleLoc ==
  [op |-> "none", items |-> << >>, i |-> 0, id |-> 0,
   inserted |-> << >>, skipped |-> << >>,
   cases |-> << >>, validJsonCount |-> 0, validThemeCount |-> 0,
   runId |-> 0, createdAt |-> 0, fb |-> Null,
   aiCalls |-> 0, calls |-> << >>, first |-> Null, ai |-> Null, row |-> Null,
   k |-> 0, hitCount |-> 0, recallAt3 |-> Null, queries |-> << >>,
   totalCases |-> 0, jsonValidRate |-> <<0, 1>>, themeValidRate |-> <<0, 1>>,
   ci |-> 0, result |-> Null, latest |-> Null, response |-> Null]

\* a record ingested through POST /api/feedback before the run (index.ts:42-66)
IngestedRow(k) ==
  [id |-> -k, source |-> Str(<<"web">>, 3), title |-> Null,
   body |-> Str(<<"wrangler", "tail", "logs">>, 18), customer_tier |-> Null,
   created_at |-> k]

\* the bindings a deployment may have (constants.ts Env)
Envs == [DB : BOOLEAN, AI : BOOLEAN, VEC : BOOLEAN]

\* the state of a deployment whose bindings are one of `envs`, whose golden
\* dataset is one of `datasets` and whose store holds one of `counts`
\* ingested records
InitWith(envs, datasets, counts) ==
  /\ env \in envs
  /\ GOLDEN_RECORDS \in datasets
  /\ \E n \in counts :
       /\ feedback = { IngestedRow(k) : k \in 1..n }
       /\ nextUuid = n
       /\ clock = n + 1
  /\ analysis = {}
  /\ eval_runs = << >>
  /\ eval_cases = << >>
  /\ vec = {}
  /\ started = 0
  /\ lastSeed = Null
  /\ pc = [p \in Procs |-> "idle"]
  /\ loc = [p \in Procs |-> IdleLoc]

Init == InitWith(Envs, GoldenDatasets, { 0, MaxIngested })

\* the request p moves to the await `to` with the locals l
Goto(p, to, l) ==
  /\ pc' = [pc EXCEPT ![p] = to]
  /\ loc' = [loc EXCEPT ![p] = l]

\* the request p ends with a response
Respond(p, l, status, body) ==
  Goto(p, "done", [l EXCEPT !.response = Some([status |-> status, body |-> body])])

\* crypto.randomUUID() has a value left within the bound
UuidLeft == nextUuid < MaxIngested + MaxFresh

\* db.ts fetchFeedbackById: the row or null
fetchFeedbackById(id) ==
  IF \E r \in feedback : r.id = id
  THEN Some(CHOOSE r \in feedback : r.id = id)
  ELSE Null

(* ---------------------------------------------------------------------- *)
(* handlers.ts seedGoldenSet                                               *)
(* ---------------------------------------------------------------------- *)
\* POST /api/eval/seed (index.ts:91-106) with the item list `items`
CallSeed(p, items) ==
  /\ pc[p] = "idle"
  /\ IF ~requireBinding(env.DB)
     THEN Respond(p, [IdleLoc EXCEPT !.op = "seed"], 500, "Failed to seed golden set")
     ELSE Goto(p, "seed_select", [IdleLoc EXCEPT !.op = "seed", !.items = items, !.i = 1])
  /\ UNCHANGED << env, GOLDEN_RECORDS, lastSeed, feedback, analysis, eval_runs, eval_cases, vec,
                  nextUuid, clock, started >>

\* faulty variant: the item is inserted without looking for its id first
SeedSelectNoLookup(p) ==
  /\ pc[p] = "seed_select"
  /\ loc[p].i <= Len(loc[p].items)
  /\ loc[p].items[loc[p].i].id = 0 => UuidLeft
  /\ LET l == loc[p]
         item == l.items[l.i]
         id == IF item.id # 0 THEN item.id ELSE -(nextUuid + 1)
     IN /\ nextUuid' = IF item.id # 0 THEN nextUuid ELSE nextUuid + 1
        /\ Goto(p, "seed_insert", [l EXCEPT !.id = id])
  /\ UNCHANGED << env, GOLDEN_RECORDS, lastSeed, feedback, analysis, eval_runs, eval_cases, vec,
                  clock, started >>

\* handlers.ts:34-40: the id of the item and the SELECT that looks for it
\* faulty variant: an item whose id is stored overwrites the stored record
SeedSelectOverwrites(p) ==
  /\ pc[p] = "seed_select"
  /\ loc[p].i <= Len(loc[p].items)
  /\ loc[p].items[loc[p].i].id = 0 => UuidLeft
  /\ LET l == loc[p]
         item == l.items[l.i]
         id == IF item.id # 0 THEN item.id ELSE -(nextUuid + 1)
         existing == \E r \in feedback : r.id = id
         value == validateFeedbackInput(
                    [source |-> item.source, title |-> item.title, body |-> item.body,
                     customer_tier |-> item.customer_tier]).value
     IN /\ nextUuid' = IF item.id # 0 THEN nextUuid ELSE nextUuid + 1
        /\ IF existing
           THEN /\ feedback' = { IF r.id = id
                                 THEN [r EXCEPT !.source = value.source, !.title = value.title,
                                                !.body = value.body,
                                                !.customer_tier = value.customer_tier]
                                 ELSE r : r \in feedback }
                /\ Goto(p, "seed_select",
                        [l EXCEPT !.skipped = Append(@, [id |-> id, reason |-> "Already exists"]),
                                  !.i = @ + 1])
           ELSE /\ UNCHANGED feedback
                /\ Goto(p, "seed_insert", [l EXCEPT !.id = id])
  /\ UNCHANGED << env, GOLDEN_RECORDS, lastSeed, analysis, eval_runs, eval_cases, vec,
                  clock, started >>

SeedSelect(p) ==
  /\ pc[p] = "seed_select"
  /\ loc[p].i <= Len(loc[p].items)
  /\ loc[p].items[loc[p].i].id = 0 => UuidLeft
  /\ LET l == loc[p]
         item == l.items[l.i]
         id == IF item.id # 0 THEN item.id ELSE -(nextUuid + 1)
         existing == \E r \in feedback : r.id = id
     IN /\ nextUuid' = IF item.id # 0 THEN nextUuid ELSE nextUuid + 1
        /\ IF existing
           THEN Goto(p, "seed_select",
                     [l EXCEPT !.skipped = Append(@, [id |-> id, reason |-> "Already exists"]),
                               !.i = @ + 1])
           ELSE Goto(p, "seed_insert", [l EXCEPT !.id = id])
  /\ UNCHANGED << env, GOLDEN_RECORDS, lastSeed, feedback, analysis, eval_runs, eval_cases, vec,
                  clock, started >>

\* faulty variant: the item is inserted whatever the validation says
SeedInsertUnvalidated(p) ==
  /\ pc[p] = "seed_insert"
  /\ LET l == loc[p]
         item == l.items[l.i]
         validated == validateFeedbackInput(
                        [source |-> item.source,
                         title |-> item.title,
                         body |-> item.body,
                         customer_tier |-> item.customer_tier])
         useOwn == ~IsNull(item.created_at) /\ Val(item.created_at).valid
         createdAt == IF useOwn THEN Val(item.created_at).t ELSE clock
         row == [id |-> l.id, source |-> validated.value.source,
                 title |-> validated.value.title, body |-> validated.value.body,
                 customer_tier |-> validated.value.customer_tier,
                 created_at |-> createdAt]
     IN /\ clock' = IF useOwn THEN clock ELSE clock + 1
        /\ feedback' = feedback \cup { row }
        /\ Goto(p, "seed_select",
                [l EXCEPT !.inserted = Append(@, l.id), !.i = @ + 1, !.id = 0])
  /\ UNCHANGED << env, GOLDEN_RECORDS, lastSeed, analysis, eval_runs, eval_cases, vec,
                  nextUuid, started >>

\* handlers.ts:41-67: validation and the INSERT. The INSERT of an id that
\* is stored by now violates the primary key and throws.
SeedInsert(p) ==
  /\ pc[p] = "seed_insert"
  /\ LET l == loc[p]
         item == l.items[l.i]
         validated == validateFeedbackInput(
                        [source |-> item.source,
                         title |-> item.title,
                         body |-> item.body,
                         customer_tier |-> item.customer_tier])
         useOwn == ~IsNull(item.created_at) /\ Val(item.created_at).valid
         createdAt == IF useOwn THEN Val(item.created_at).t ELSE clock
         row == [id |-> l.id, source |-> validated.value.source,
                 title |-> validated.value.title, body |-> validated.value.body,
                 customer_tier |-> validated.value.customer_tier,
                 created_at |-> createdAt]
     IN IF validated.error
        THEN /\ Goto(p, "seed_select",
                     [l EXCEPT !.skipped = Append(@, [id |-> l.id, reason |-> "Validation failed"]),
                               !.i = @ + 1, !.id = 0])
             /\ UNCHANGED << feedback, clock >>
        ELSE /\ clock' = IF useOwn THEN clock ELSE clock + 1
             /\ IF \E r \in feedback : r.id = l.id
                THEN /\ Respond(p, l, 500, "Failed to seed golden set")
                     /\ UNCHANGED feedback
                ELSE /\ feedback' = feedback \cup { row }
                     /\ Goto(p, "seed_select",
                             [l EXCEPT !.inserted = Append(@, l.id), !.i = @ + 1, !.id = 0])
  /\ UNCHANGED << env, GOLDEN_RECORDS, lastSeed, analysis, eval_runs, eval_cases, vec,
                  nextUuid, started >>

\* handlers.ts:35, 59-67 with 284-288: the statement the Seed step of an
\* evaluation is at raises a store error, which handleEvalRun catches
SeedStoreError(p) ==
  /\ loc[p].op = "eval"
  /\ \/ pc[p] = "seed_select" /\ loc[p].i <= Len(loc[p].items)
     \/ pc[p] = "seed_insert" /\ ~validateFeedbackInput(
                                     [source |-> loc[p].items[loc[p].i].source,
                                      title |-> loc[p].items[loc[p].i].title,
                                      body |-> loc[p].items[loc[p].i].body,
                                      customer_tier |-> loc[p].items[loc[p].i].customer_tier]).error
  /\ Respond(p, loc[p], 500, "Failed to seed golden set")
  /\ UNCHANGED << env, GOLDEN_RECORDS, lastSeed, feedback, analysis, eval_runs, eval_cases, vec,
                  nextUuid, clock, started >>

\* handlers.ts:69 and index.ts:97-102: the seed request returns its lists
SeedReturn(p) ==
  /\ pc[p] = "seed_select"
  /\ loc[p].op = "seed"
  /\ loc[p].i > Len(loc[p].items)
  /\ Respond(p, loc[p], 200, "seeded")
  /\ UNCHANGED << env, GOLDEN_RECORDS, lastSeed, feedback, analysis, eval_runs, eval_cases, vec,
                  nextUuid, clock, started >>

(* ---------------------------------------------------------------------- *)
(* handlers.ts analyzeAndStore, ai.ts runAiAnalysisWithRetry, upsertVector *)
(* ---------------------------------------------------------------------- *)
AiError(msg) == [analysis |-> Null, error |-> Some(msg), raw |-> Null]

EvalCase(feedbackId, jsonValid, themeValid, notes) ==
  [feedback_id |-> feedbackId, json_valid |-> jsonValid, theme_valid |-> themeValid,
   recall_hit |-> Null, notes |-> notes]

\* the locals of analyzeAndStore are dropped when it returns
DropAnalyzeLocals(l) ==
  [l EXCEPT !.fb = Null, !.aiCalls = 0, !.calls = << >>, !.first = Null, !.ai = Null,
            !.row = Null]

\* handlers.ts:299-306: the case of the item whose analyzeAndStore returned
\* an error (failed) or the analysis row
PushCase(l, failed, row) ==
  IF failed
  THEN [DropAnalyzeLocals(l) EXCEPT
          !.cases = Append(@, EvalCase(Val(l.fb).id, 0, 0, Some("Analysis failed"))),
          !.i = @ + 1]
  ELSE LET themeValid == IF themeIsValid(row.theme) THEN 1 ELSE 0
       IN [DropAnalyzeLocals(l) EXCEPT
             !.validJsonCount = @ + 1,
             !.validThemeCount = @ + themeValid,
             !.cases = Append(@, EvalCase(Val(l.fb).id, 1, themeValid, Null)),
             !.i = @ + 1]

\* faulty variant: a failed classification leaves handleEvalRun as an exception
AnalyzeReturnsThrowing(p, l, failed, status, row) ==
  IF failed
  THEN Respond(p, l, 500, "Server error")
  ELSE IF l.op = "eval"
  THEN Goto(p, "classify_fetch", PushCase(l, failed, row))
  ELSE Respond(p, DropAnalyzeLocals(l), 200, "analysis")

\* analyzeAndStore returns to its caller: handleEvalRun (handlers.ts:298-307)
\* or handleAnalyze (handlers.ts:214-216)
AnalyzeReturns(p, l, failed, status, row) ==
  IF l.op = "eval"
  THEN Goto(p, "classify_fetch", PushCase(l, failed, row))
  ELSE Respond(p, DropAnalyzeLocals(l), IF failed THEN status ELSE 200,
               IF failed THEN "AI analysis failed" ELSE "analysis")

\* an exception leaves the handler and reaches the catch of fetch (index.ts:114-117)
Throws(p, l) == Respond(p, l, 500, "Server error")

\* faulty variant: the retry is made after a valid first attempt too
FirstAttemptAlwaysRetries(p, responses) ==
  /\ pc[p] = "ai1"
  /\ LET l == loc[p]
     IN IF ~requireBinding(env.AI)
        THEN Goto(p, "analyzed", [l EXCEPT !.ai = Some(AiError("Missing binding: AI"))])
        ELSE \E response \in responses :
               LET result == AttemptResult(response, "Invalid JSON from AI")
               IN Goto(p, "ai2", [l EXCEPT !.aiCalls = @ + 1, !.calls = Append(@, response),
                                           !.first = Some(result)])
  /\ UNCHANGED << env, GOLDEN_RECORDS, lastSeed, feedback, analysis, eval_runs, eval_cases, vec,
                  nextUuid, clock, started >>

\* ai.ts:48-133 runAiAnalysis, the first attempt. Without the AI binding no
\* call is made and the retry function returns the same error (ai.ts:142-143).
FirstAttempt(p, responses) ==
  /\ pc[p] = "ai1"
  /\ LET l == loc[p]
     IN IF ~requireBinding(env.AI)
        THEN Goto(p, "analyzed", [l EXCEPT !.ai = Some(AiError("Missing binding: AI"))])
        ELSE \E response \in responses :
               LET result == AttemptResult(response, "Invalid JSON from AI")
               IN IF ~IsNull(result.analysis)
                  THEN Goto(p, "analyzed",
                            [l EXCEPT !.aiCalls = @ + 1, !.calls = Append(@, response),
                                      !.first = Some(result), !.ai = Some(result)])
                  ELSE Goto(p, "ai2", [l EXCEPT !.aiCalls = @ + 1, !.calls = Append(@, response),
                                               !.first = Some(result)])
  /\ UNCHANGED << env, GOLDEN_RECORDS, lastSeed, feedback, analysis, eval_runs, eval_cases, vec,
                  nextUuid, clock, started >>

\* faulty variant: a failed retry starts the classification over
RetryStartsOver(p, responses) ==
  /\ pc[p] = "ai2"
  /\ \E response \in responses :
       LET result == AttemptResult(response, "Invalid JSON from AI after retry")
       IN IF IsNull(result.analysis)
          THEN Goto(p, "ai1", [loc[p] EXCEPT !.aiCalls = 0, !.calls = << >>, !.first = Null])
          ELSE Goto(p, "analyzed", [loc[p] EXCEPT !.aiCalls = @ + 1,
                                                  !.calls = Append(@, response),
                                                  !.ai = Some(result)])
  /\ UNCHANGED << env, GOLDEN_RECORDS, lastSeed, feedback, analysis, eval_runs, eval_cases, vec,
                  nextUuid, clock, started >>

\* faulty variant: a failed retry returns the error of the first attempt
RetryKeepsFirstError(p, responses) ==
  /\ pc[p] = "ai2"
  /\ \E response \in responses :
       LET result == AttemptResult(response, "Invalid JSON from AI after retry")
       IN Goto(p, "analyzed", [loc[p] EXCEPT !.aiCalls = @ + 1,
                                             !.calls = Append(@, response),
                                             !.ai = IF IsNull(result.analysis)
                                                    THEN loc[p].first ELSE Some(result)])
  /\ UNCHANGED << env, GOLDEN_RECORDS, lastSeed, feedback, analysis, eval_runs, eval_cases, vec,
                  nextUuid, clock, started >>

\* ai.ts:145-198: the corrective retry
Retry(p, responses) ==
  /\ pc[p] = "ai2"
  /\ \E response \in responses :
       LET result == AttemptResult(response, "Invalid JSON from AI after retry")
       IN Goto(p, "analyzed", [loc[p] EXCEPT !.aiCalls = @ + 1,
                                             !.calls = Append(@, response),
                                             !.ai = Some(result)])
  /\ UNCHANGED << env, GOLDEN_RECORDS, lastSeed, feedback, analysis, eval_runs, eval_cases, vec,
                  nextUuid, clock, started >>

\* handlers.ts:150: error.startsWith('Missing binding'), over the messages
\* the model draws from
StartsWithMissingBinding(message) ==
  message \in { "Missing binding: AI", "Missing binding: upstream" }

\* handlers.ts:153-166
AnalysisRowOf(fb, a, analyzedAt) ==
  [feedback_id |-> fb.id, summary |-> a.summary, theme |-> a.theme,
   sentiment_label |-> a.sentiment_label, sentiment_score |-> a.sentiment_score,
   urgency_score |-> a.urgency_score, severity |-> toSeverity(a.urgency_score),
   suggested_owner |-> a.suggested_owner, proposed_fix |-> a.proposed_fix,
   analyzed_at |-> analyzedAt, model |-> "ANALYSIS_MODEL"]

\* faulty variant: a plain INSERT that adds a row whatever the table holds
UpsertAnalysisAddsRow(rows, row) == rows \cup { row }

\* INSERT ... ON CONFLICT(feedback_id) DO UPDATE SET every other column
UpsertAnalysis(rows, row) ==
  { r \in rows : r.feedback_id # row.feedback_id } \cup { row }

\* faulty variant: a failed classification removes the analysis stored for
\* the record
AnalyzedClearsOnFailure(p) ==
  /\ pc[p] = "analyzed"
  /\ LET l == loc[p]
         aiResult == Val(l.ai)
     IN IF IsNull(aiResult.analysis)
        THEN /\ AnalyzeReturns(p, l, TRUE,
                               IF StartsWithMissingBinding(Val(aiResult.error))
                               THEN 500 ELSE 502,
                               Null)
             /\ analysis' = { r \in analysis : r.feedback_id # Val(l.fb).id }
             /\ UNCHANGED clock
        ELSE /\ clock' = clock + 1
             /\ UNCHANGED analysis
             /\ Goto(p, "upsert",
                     [l EXCEPT !.row = Some(AnalysisRowOf(Val(l.fb), Val(aiResult.analysis),
                                                          clock))])
  /\ UNCHANGED << env, GOLDEN_RECORDS, lastSeed, feedback, eval_runs, eval_cases,
                  vec, nextUuid, started >>

\* handlers.ts:149-166: the error of a failed classification, or the
\* analysis row with analyzed_at = nowIso(), built before the store is awaited
Analyzed(p) ==
  /\ pc[p] = "analyzed"
  /\ LET l == loc[p]
         aiResult == Val(l.ai)
     IN IF IsNull(aiResult.analysis)
        THEN /\ AnalyzeReturns(p, l, TRUE,
                               IF StartsWithMissingBinding(Val(aiResult.error))
                               THEN 500 ELSE 502,
                               Null)
             /\ UNCHANGED clock
        ELSE /\ clock' = clock + 1
             /\ Goto(p, "upsert",
                     [l EXCEPT !.row = Some(AnalysisRowOf(Val(l.fb), Val(aiResult.analysis),
                                                          clock))])
  /\ UNCHANGED << env, GOLDEN_RECORDS, lastSeed, feedback, analysis, eval_runs, eval_cases,
                  vec, nextUuid, started >>

\* handlers.ts:167-197: the upsert of the analysis row, one statement,
\* followed by upsertVector up to its first await (nothing when the index is
\* not configured, vectorize.ts:8)
StoreAnalysis(p) ==
  /\ pc[p] = "upsert"
  /\ analysis' = UpsertAnalysis(analysis, Val(loc[p].row))
  /\ IF ~env.VEC
     THEN AnalyzeReturns(p, loc[p], FALSE, 200, Val(loc[p].row))
     ELSE Goto(p, "embed", loc[p])
  /\ UNCHANGED << env, GOLDEN_RECORDS, lastSeed, feedback, eval_runs, eval_cases, vec,
                  nextUuid, clock, started >>

\* what a call of the embedding model does: a vector, a response without a
\* usable vector, or an exception
EmbedOutcomes == { "vector", "none", "throw" }

\* vectorize.ts:9-10 with ai.ts:201-213 embedText
Embed(p) ==
  /\ pc[p] = "embed"
  /\ LET l == loc[p]
     IN IF ~requireBinding(env.AI)
        THEN AnalyzeReturns(p, l, FALSE, 200, Val(l.row))
        ELSE \E outcome \in EmbedOutcomes :
               CASE outcome = "vector" -> Goto(p, "vec_upsert", l)
                 [] outcome = "none" -> AnalyzeReturns(p, l, FALSE, 200, Val(l.row))
                 [] OTHER -> Throws(p, l)
  /\ UNCHANGED << env, GOLDEN_RECORDS, lastSeed, feedback, analysis, eval_runs, eval_cases, vec,
                  nextUuid, clock, started >>

\* faulty variant: the entry is added next to the one the id has
UpsertEntryAdds(entries, entry) == entries \cup { entry }

\* VEC.upsert replaces the entry of the id
UpsertEntry(entries, entry) == { e \in entries : e.id # entry.id } \cup { entry }

\* vectorize.ts:11-21: the upsert into the index, which may throw
VecUpsert(p) ==
  /\ pc[p] = "vec_upsert"
  /\ LET l == loc[p]
         fb == Val(l.fb)
         entry == [id |-> fb.id, theme |-> Val(l.row).theme, source |-> fb.source,
                   created_at |-> fb.created_at]
     IN \E ok \in BOOLEAN :
          IF ok
          THEN /\ vec' = UpsertEntry(vec, entry)
               /\ AnalyzeReturns(p, l, FALSE, 200, Val(l.row))
          ELSE /\ UNCHANGED vec
               /\ Throws(p, l)
  /\ UNCHANGED << env, GOLDEN_RECORDS, lastSeed, feedback, analysis, eval_runs, eval_cases,
                  nextUuid, clock, started >>

\* POST /api/feedback/:id/analyze: handlers.ts:209-214 handleAnalyze up to
\* analyzeAndStore, whose first line checks the DB binding again
CallAnalyze(p, id) ==
  /\ pc[p] = "idle"
  /\ clock <= MaxIngested + MaxAnalyses
  /\ IF ~requireBinding(env.DB)
     THEN Respond(p, [IdleLoc EXCEPT !.op = "analyze", !.id = id], 500, "Missing binding: DB")
     ELSE LET fb == fetchFeedbackById(id)
          IN IF IsNull(fb)
             THEN Respond(p, [IdleLoc EXCEPT !.op = "analyze", !.id = id], 404,
                          "Feedback not found")
             ELSE Goto(p, "ai1", [IdleLoc EXCEPT !.op = "analyze", !.id = id, !.fb = fb])
  /\ UNCHANGED << env, GOLDEN_RECORDS, lastSeed, feedback, analysis, eval_runs, eval_cases,
                  vec, nextUuid, clock, started >>

(* ---------------------------------------------------------------------- *)
(* handlers.ts searchApi, vectorize.ts searchSimilar                       *)
(* ---------------------------------------------------------------------- *)
Min(a, b) == IF a <= b THEN a ELSE b

\* Array.prototype.slice(0, n)
Slice(seq, n) == SubSeq(seq, 1, Min(n, Len(seq)))

RECURSIVE FilterSeq(_, _)
\* Array.prototype.filter for the ids of the set keep
FilterSeq(seq, keep) ==
  IF seq = << >> THEN << >>
  ELSE IF Head(seq) \in keep THEN <<Head(seq)>> \o FilterSeq(Tail(seq), keep)
  ELSE FilterSeq(Tail(seq), keep)

SeqRange(seq) == { seq[i] : i \in 1..Len(seq) }

\* the sequences of n distinct elements of S
RECURSIVE Arrangements(_, _)
Arrangements(S, n) ==
  IF n = 0 THEN { << >> }
  ELSE UNION { { <<x>> \o rest : rest \in Arrangements(S \ {x}, n - 1) } : x \in S }

\* VEC.query(vector, {topK}): the topK nearest entries, nearest first. Which
\* entries are nearest is the index's business: any order of any topK of them.
QueryMatches(topK) == Arrangements({ e.id : e \in vec }, Min(topK, Cardinality(vec)))

StoredIds == { r.id : r \in feedback }
CreatedAt(id) == (CHOOSE r \in feedback : r.id = id).created_at

\* handlers.ts:247-262: the ids of the matches, then the stored rows in that order
RowsOfMatches(matches) == FilterSeq(FilterSeq(matches, SeqRange(matches) \ {0}), StoredIds)

\* handlers.ts:264-276: SELECT ... WHERE title LIKE ? OR body LIKE ?
\* ORDER BY created_at DESC LIMIT 5; rows of one created_at come in any order
RECURSIVE NewestFirst(_, _)
\* the n newest of the ids S, newest first; equal created_at in any order
NewestFirst(S, n) ==
  IF n = 0 \/ S = {} THEN { << >> }
  ELSE UNION { { <<x>> \o rest : rest \in NewestFirst(S \ {x}, n - 1) } :
                 x \in { y \in S : \A z \in S : CreatedAt(y) >= CreatedAt(z) } }

\* faulty variant: the text search without its LIMIT
TextMatchesNoLimit(query) ==
  NewestFirst({ r.id : r \in { x \in feedback :
                   \/ ~IsNull(x.title) /\ Like(Val(x.title), query)
                   \/ Like(x.body, query) } },
              Cardinality(feedback))

TextMatches(query) ==
  NewestFirst({ r.id : r \in { x \in feedback :
                   \/ ~IsNull(x.title) /\ Like(Val(x.title), query)
                   \/ Like(x.body, query) } },
              TEXT_LIMIT)

SearchResult(threw, results, note, embeds, lookups) ==
  [threw |-> threw, results |-> results, note |-> note,
   embeds |-> embeds, lookups |-> lookups]

\* searchApi(env, query): every result it can return (or throw), with the
\* number of embedding calls and of index queries it made
searchApi(query) ==
  IF ~requireBinding(env.DB)
  THEN { SearchResult(FALSE, << >>, Some("Missing DB binding"), 0, 0) }
  ELSE IF env.VEC
  THEN IF ~requireBinding(env.AI)
       THEN { SearchResult(FALSE, << >>, Some("Missing binding: AI"), 0, 0) }
       ELSE { SearchResult(TRUE, << >>, Null, 1, 0),
              SearchResult(FALSE, << >>, Some("Embedding unavailable"), 1, 0),
              SearchResult(TRUE, << >>, Null, 1, 1) }
            \cup { SearchResult(FALSE, RowsOfMatches(m), Null, 1, 1) :
                     m \in QueryMatches(SEARCH_TOP_K) }
  ELSE { SearchResult(FALSE, rows, Some("Vectorize not configured"), 0, 0) :
           rows \in TextMatches(query) }

\* searchSimilar(env, feedback, limit): every result it can return (or throw)
searchSimilar(fb, limit) ==
  IF ~env.VEC
  THEN { SearchResult(FALSE, << >>, Some("Vectorize not configured"), 0, 0) }
  ELSE IF ~requireBinding(env.AI)
  THEN { SearchResult(FALSE, << >>, Some("Embedding failed"), 0, 0) }
  ELSE { SearchResult(TRUE, << >>, Null, 1, 0),
         SearchResult(FALSE, << >>, Some("Embedding failed"), 1, 0),
         SearchResult(TRUE, << >>, Null, 1, 1) }
       \cup { SearchResult(FALSE,
                IF ~requireBinding(env.DB) THEN << >>
                ELSE Slice(RowsOfMatches(FilterSeq(m, SeqRange(m) \ {0, fb.id})), limit),
                Null, 1, 1) :
                m \in QueryMatches(limit + 1) }

\* the words a search request asks for
Queries == { "tail", "billing" }

\* GET /api/search?q= (index.ts:81-90)
CallSearch(p, query) ==
  /\ pc[p] = "idle"
  /\ IF ~requireBinding(env.DB)
     THEN Respond(p, [IdleLoc EXCEPT !.op = "search"], 500, "Missing binding: DB")
     ELSE IF env.VEC /\ ~requireBinding(env.AI)
     THEN Respond(p, [IdleLoc EXCEPT !.op = "search"], 500, "Missing binding: AI")
     ELSE \E result \in searchApi(query) :
            IF result.threw THEN Throws(p, [IdleLoc EXCEPT !.op = "search"])
            ELSE Respond(p, [IdleLoc EXCEPT !.op = "search", !.result = Some(result)],
                         200, "results")
  /\ UNCHANGED << env, GOLDEN_RECORDS, lastSeed, feedback, analysis, eval_runs, eval_cases, vec,
                  nextUuid, clock, started >>

\* searchSimilar(env, feedback, limit) for a stored record (ui.ts calls it
\* with limit 3 when the index is configured)
CallSimilar(p, id, limit) ==
  /\ pc[p] = "idle"
  /\ id \in StoredIds
  /\ \E result \in searchSimilar(Val(fetchFeedbackById(id)), limit) :
       IF result.threw THEN Throws(p, [IdleLoc EXCEPT !.op = "similar", !.id = id])
       ELSE Respond(p, [IdleLoc EXCEPT !.op = "similar", !.id = id,
                                      !.result = Some(result)], 200, "items")
  /\ UNCHANGED << env, GOLDEN_RECORDS, lastSeed, feedback, analysis, eval_runs, eval_cases, vec,
                  nextUuid, clock, started >>

(* ---------------------------------------------------------------------- *)
(* handlers.ts handleEvalRun                                               *)
(* ---------------------------------------------------------------------- *)
\* faulty variant: the Seed step runs before the AI binding is looked at
CallEvalRunSeedsFirst(p) ==
  /\ pc[p] = "idle"
  /\ started < MaxRuns
  /\ started' = started + 1
  /\ IF ~requireBinding(env.DB)
     THEN Respond(p, [IdleLoc EXCEPT !.op = "eval"], 500, "Missing binding: DB")
     ELSE Goto(p, "seed_select", [IdleLoc EXCEPT !.op = "eval", !.items = GOLDEN_SET, !.i = 1])
  /\ UNCHANGED << env, GOLDEN_RECORDS, lastSeed, feedback, analysis, eval_runs, eval_cases, vec,
                  nextUuid, clock >>

\* handlers.ts:279-285: the binding checks, then the Seed step over GOLDEN_SET
CallEvalRunUpTo(p, maxRuns) ==
  /\ pc[p] = "idle"
  /\ started < maxRuns
  /\ started' = started + 1
  /\ IF ~requireBinding(env.DB)
     THEN Respond(p, [IdleLoc EXCEPT !.op = "eval"], 500, "Missing binding: DB")
     ELSE IF ~requireBinding(env.AI)
     THEN Respond(p, [IdleLoc EXCEPT !.op = "eval"], 500, "Missing binding: AI")
     ELSE Goto(p, "seed_select", [IdleLoc EXCEPT !.op = "eval", !.items = GOLDEN_SET, !.i = 1])
  /\ UNCHANGED << env, GOLDEN_RECORDS, lastSeed, feedback, analysis, eval_runs, eval_cases, vec,
                  nextUuid, clock >>

CallEvalRun(p) == CallEvalRunUpTo(p, MaxRuns)

\* handlers.ts:289-294: the Seed step is over; createdAt and runId are taken
ClassifyStart(p) ==
  /\ pc[p] = "seed_select"
  /\ loc[p].op = "eval"
  /\ loc[p].i > Len(loc[p].items)
  /\ UuidLeft
  /\ nextUuid' = nextUuid + 1
  /\ clock' = clock + 1
  /\ Goto(p, "classify_fetch",
          [loc[p] EXCEPT !.createdAt = clock, !.runId = -(nextUuid + 1), !.i = 1])
  /\ UNCHANGED << env, GOLDEN_RECORDS, lastSeed, feedback, analysis, eval_runs, eval_cases, vec,
                  started >>

\* faulty variant: an item without a stored record gets a failing case
ClassifyFetchCountsMissing(p) ==
  /\ pc[p] = "classify_fetch"
  /\ loc[p].i <= Len(GOLDEN_SET)
  /\ LET l == loc[p]
         fb == fetchFeedbackById(GOLDEN_SET[l.i].id)
     IN IF IsNull(fb)
        THEN Goto(p, "classify_fetch",
                  [l EXCEPT !.cases = Append(@, EvalCase(GOLDEN_SET[l.i].id, 0, 0,
                                                         Some("Analysis failed"))),
                            !.i = @ + 1])
        ELSE Goto(p, "ai1", [l EXCEPT !.fb = fb])
  /\ UNCHANGED << env, GOLDEN_RECORDS, lastSeed, feedback, analysis, eval_runs, eval_cases, vec,
                  nextUuid, clock, started >>

\* handlers.ts:295-297: the record of the next golden item; an item without
\* a stored record is skipped
ClassifyFetch(p) ==
  /\ pc[p] = "classify_fetch"
  /\ loc[p].i <= Len(GOLDEN_SET)
  /\ LET l == loc[p]
         fb == fetchFeedbackById(GOLDEN_SET[l.i].id)
     IN IF IsNull(fb)
        THEN Goto(p, "classify_fetch", [l EXCEPT !.i = @ + 1])
        ELSE Goto(p, "ai1", [l EXCEPT !.fb = fb])
  /\ UNCHANGED << env, GOLDEN_RECORDS, lastSeed, feedback, analysis, eval_runs, eval_cases, vec,
                  nextUuid, clock, started >>

RECURSIVE FindCase(_, _, _)
\* Array.prototype.find: the index of the first case of the record, or 0
FindCase(cases, id, from) ==
  IF from > Len(cases) THEN 0
  ELSE IF cases[from].feedback_id = id THEN from
  ELSE FindCase(cases, id, from + 1)

\* faulty variant: a miss leaves a note that is already there
MarkRecallKeepsNote(cases, idA, hit) ==
  LET c == FindCase(cases, idA, 1)
  IN IF c = 0 THEN cases
     ELSE [cases EXCEPT ![c] = [@ EXCEPT !.recall_hit = Some(hit),
                                          !.notes = IF hit = 1 \/ ~IsNull(@) THEN @
                                                    ELSE Some("Recall miss")]]

\* handlers.ts:318-322
MarkRecall(cases, idA, hit) ==
  LET c == FindCase(cases, idA, 1)
  IN IF c = 0 THEN cases
     ELSE [cases EXCEPT ![c] = [@ EXCEPT !.recall_hit = Some(hit),
                                          !.notes = IF hit = 1 THEN @ ELSE Some("Recall miss")]]

RECURSIVE MarkUnconfigured(_, _, _)
\* handlers.ts:326-332: the cases of the pairs when there is no index
MarkUnconfigured(cases, pairs, k) ==
  IF k > Len(pairs) THEN cases
  ELSE LET c == FindCase(cases, pairs[k][1], 1)
           marked == IF c = 0 THEN cases
                     ELSE [cases EXCEPT ![c] = [@ EXCEPT !.recall_hit = Null,
                                                          !.notes = Some("Vectorize not configured")]]
       IN MarkUnconfigured(marked, pairs, k + 1)

\* faulty variant: without an index the cases of the pairs stay as they are
RecallStartUnmarked(p) ==
  /\ pc[p] = "classify_fetch"
  /\ loc[p].i > Len(GOLDEN_SET)
  /\ IF env.VEC
     THEN Goto(p, "recall", [loc[p] EXCEPT !.k = 1, !.hitCount = 0])
     ELSE Goto(p, "persist_run", loc[p])
  /\ UNCHANGED << env, GOLDEN_RECORDS, lastSeed, feedback, analysis, eval_runs, eval_cases, vec,
                  nextUuid, clock, started >>

\* faulty variant: the recall pass starts while golden items are still to be
\* classified
RecallStartEarly(p) ==
  /\ pc[p] = "classify_fetch"
  /\ IF env.VEC
     THEN Goto(p, "recall", [loc[p] EXCEPT !.k = 1, !.hitCount = 0])
     ELSE Goto(p, "persist_run",
               [loc[p] EXCEPT !.cases = MarkUnconfigured(@, GOLDEN_PAIRS, 1)])
  /\ UNCHANGED << env, GOLDEN_RECORDS, lastSeed, feedback, analysis, eval_runs, eval_cases, vec,
                  nextUuid, clock, started >>

\* handlers.ts:308-310, 325-333: the classify pass is over
RecallStart(p) ==
  /\ pc[p] = "classify_fetch"
  /\ loc[p].i > Len(GOLDEN_SET)
  /\ IF env.VEC
     THEN Goto(p, "recall", [loc[p] EXCEPT !.k = 1, !.hitCount = 0])
     ELSE Goto(p, "persist_run",
               [loc[p] EXCEPT !.cases = MarkUnconfigured(@, GOLDEN_PAIRS, 1)])
  /\ UNCHANGED << env, GOLDEN_RECORDS, lastSeed, feedback, analysis, eval_runs, eval_cases, vec,
                  nextUuid, clock, started >>

\* handlers.ts:311-323: one duplicate pair: the record of A, the search for
\* its text, the hit
RecallPair(p) ==
  /\ pc[p] = "recall"
  /\ loc[p].k <= Len(GOLDEN_PAIRS)
  /\ LET l == loc[p]
         idA == GOLDEN_PAIRS[l.k][1]
         idB == GOLDEN_PAIRS[l.k][2]
         fb == fetchFeedbackById(idA)
     IN IF IsNull(fb)
        THEN Goto(p, "recall", [l EXCEPT !.k = @ + 1])
        ELSE \E similar \in searchApi("text of A") :
               IF similar.threw THEN Throws(p, l)
               ELSE LET top3 == Slice(similar.results, RECALL_TOP)
                        hit == IF idB \in SeqRange(top3) THEN 1 ELSE 0
                    IN Goto(p, "recall",
                            [l EXCEPT !.hitCount = @ + hit,
                                      !.cases = MarkRecall(@, idA, hit),
                                      !.queries = Append(@, [k |-> l.k, top3 |-> SeqRange(top3)]),
                                      !.k = @ + 1])
  /\ UNCHANGED << env, GOLDEN_RECORDS, lastSeed, feedback, analysis, eval_runs, eval_cases, vec,
                  nextUuid, clock, started >>

\* faulty variant: the hits are divided by the number of pairs that were queried
RecallDoneOverQueried(p) ==
  /\ pc[p] = "recall"
  /\ loc[p].k > Len(GOLDEN_PAIRS)
  /\ Goto(p, "persist_run",
          [loc[p] EXCEPT !.recallAt3 = IF Len(loc[p].queries) # 0
                                        THEN Some(<<loc[p].hitCount, Len(loc[p].queries)>>)
                                        ELSE Null])
  /\ UNCHANGED << env, GOLDEN_RECORDS, lastSeed, feedback, analysis, eval_runs, eval_cases, vec,
                  nextUuid, clock, started >>

\* handlers.ts:324
RecallDone(p) ==
  /\ pc[p] = "recall"
  /\ loc[p].k > Len(GOLDEN_PAIRS)
  /\ Goto(p, "persist_run",
          [loc[p] EXCEPT !.recallAt3 = IF Len(GOLDEN_PAIRS) # 0
                                        THEN Some(<<loc[p].hitCount, Len(GOLDEN_PAIRS)>>)
                                        ELSE Null])
  /\ UNCHANGED << env, GOLDEN_RECORDS, lastSeed, feedback, analysis, eval_runs, eval_cases, vec,
                  nextUuid, clock, started >>

\* total ? count / total : 0
Rate(count, total) == IF total # 0 THEN <<count, total>> ELSE <<0, 1>>

\* faulty variant: the rates are taken over the size of the golden set
PersistRunOverGolden(p) ==
  /\ pc[p] = "persist_run"
  /\ LET l == loc[p]
         totalCases == Len(l.cases)
         jsonValidRate == Rate(l.validJsonCount, Len(GOLDEN_SET))
         themeValidRate == Rate(l.validThemeCount, Len(GOLDEN_SET))
     IN /\ eval_runs' = Append(eval_runs,
                          [id |-> l.runId, created_at |-> l.createdAt,
                           model |-> "ANALYSIS_MODEL", prompt_version |-> "PROMPT_VERSION",
                           total_cases |-> totalCases, json_valid_rate |-> jsonValidRate,
                           theme_valid_rate |-> themeValidRate, recall_at_3 |-> l.recallAt3])
        /\ Goto(p, "persist_cases",
                [l EXCEPT !.totalCases = totalCases, !.jsonValidRate = jsonValidRate,
                          !.themeValidRate = themeValidRate, !.ci = 1])
  /\ UNCHANGED << env, GOLDEN_RECORDS, lastSeed, feedback, analysis, eval_cases, vec,
                  nextUuid, clock, started >>

\* handlers.ts:334-343: the rates and the INSERT INTO eval_runs
PersistRun(p) ==
  /\ pc[p] = "persist_run"
  /\ LET l == loc[p]
         totalCases == Len(l.cases)
         jsonValidRate == Rate(l.validJsonCount, totalCases)
         themeValidRate == Rate(l.validThemeCount, totalCases)
     IN /\ eval_runs' = Append(eval_runs,
                          [id |-> l.runId, created_at |-> l.createdAt,
                           model |-> "ANALYSIS_MODEL", prompt_version |-> "PROMPT_VERSION",
                           total_cases |-> totalCases, json_valid_rate |-> jsonValidRate,
                           theme_valid_rate |-> themeValidRate, recall_at_3 |-> l.recallAt3])
        /\ Goto(p, "persist_cases",
                [l EXCEPT !.totalCases = totalCases, !.jsonValidRate = jsonValidRate,
                          !.themeValidRate = themeValidRate, !.ci = 1])
  /\ UNCHANGED << env, GOLDEN_RECORDS, lastSeed, feedback, analysis, eval_cases, vec,
                  nextUuid, clock, started >>

\* faulty variant: a case is written under the id of the newest run row
PersistCaseNewestRun(p) ==
  /\ pc[p] = "persist_cases"
  /\ loc[p].ci <= Len(loc[p].cases)
  /\ LET l == loc[p]
         row == l.cases[l.ci]
     IN /\ eval_cases' = Append(eval_cases,
                           [run_id |-> eval_runs[Len(eval_runs)].id,
                            feedback_id |-> row.feedback_id,
                            json_valid |-> row.json_valid, theme_valid |-> row.theme_valid,
                            recall_hit |-> row.recall_hit, notes |-> row.notes])
        /\ Goto(p, "persist_cases", [l EXCEPT !.ci = @ + 1])
  /\ UNCHANGED << env, GOLDEN_RECORDS, lastSeed, feedback, analysis, eval_runs, vec,
                  nextUuid, clock, started >>

\* handlers.ts:344-352: the INSERT of one case
PersistCase(p) ==
  /\ pc[p] = "persist_cases"
  /\ loc[p].ci <= Len(loc[p].cases)
  /\ LET l == loc[p]
         row == l.cases[l.ci]
     IN /\ eval_cases' = Append(eval_cases,
                           [run_id |-> l.runId, feedback_id |-> row.feedback_id,
                            json_valid |-> row.json_valid, theme_valid |-> row.theme_valid,
                            recall_hit |-> row.recall_hit, notes |-> row.notes])
        /\ Goto(p, "persist_cases", [l EXCEPT !.ci = @ + 1])
  /\ UNCHANGED << env, GOLDEN_RECORDS, lastSeed, feedback, analysis, eval_runs, vec,
                  nextUuid, clock, started >>

\* faulty variant: a failed write takes the run row back
PersistStoreErrorRollsBack(p) ==
  /\ \/ pc[p] = "persist_run"
     \/ pc[p] = "persist_cases" /\ loc[p].ci <= Len(loc[p].cases)
  /\ eval_runs' = SelectSeq(eval_runs, LAMBDA r : r.id # loc[p].runId)
  /\ Throws(p, loc[p])
  /\ UNCHANGED << env, GOLDEN_RECORDS, lastSeed, feedback, analysis, eval_cases, vec,
                  nextUuid, clock, started >>

\* handlers.ts:337-352 with index.ts:114-117: the INSERT of the run row or of
\* a case row raises a store error; handleEvalRun does not catch it and
\* nothing that was written is taken back
PersistStoreError(p) ==
  /\ \/ pc[p] = "persist_run"
     \/ pc[p] = "persist_cases" /\ loc[p].ci <= Len(loc[p].cases)
  /\ Throws(p, loc[p])
  /\ UNCHANGED << env, GOLDEN_RECORDS, lastSeed, feedback, analysis, eval_runs, eval_cases, vec,
                  nextUuid, clock, started >>

\* handlers.ts:353-360: the response with the metrics of the run
EvalRespond(p) ==
  /\ pc[p] = "persist_cases"
  /\ loc[p].ci > Len(loc[p].cases)
  /\ Respond(p, loc[p], 200, "metrics")
  /\ UNCHANGED << env, GOLDEN_RECORDS, lastSeed, feedback, analysis, eval_runs, eval_cases, vec,
                  nextUuid, clock, started >>

(* ---------------------------------------------------------------------- *)
(* index.ts POST /api/feedback, handlers.ts handleBulkIngest and            *)
(* handleEvalLatest                                                        *)
(* ---------------------------------------------------------------------- *)
\* nowIso() has an instant left within the bound
ClockLeft == clock <= MaxIngested + MaxAnalyses

\* the row an ingest stores for a validated input
IngestRow(id, value, createdAt) ==
  [id |-> id, source |-> value.source, title |-> value.title, body |-> value.body,
   customer_tier |-> value.customer_tier, created_at |-> createdAt]

\* index.ts:42-66: POST /api/feedback: validation, the DB binding, a fresh
\* id, the INSERT
CallIngest(p, input) ==
  /\ pc[p] = "idle"
  /\ UuidLeft
  /\ ClockLeft
  /\ LET validated == validateFeedbackInput(input)
         l == [IdleLoc EXCEPT !.op = "ingest"]
     IN IF validated.error
        THEN /\ Respond(p, l, 400, "Invalid input")
             /\ UNCHANGED << feedback, nextUuid, clock >>
        ELSE IF ~requireBinding(env.DB)
        THEN /\ Respond(p, l, 500, "Missing binding: DB")
             /\ UNCHANGED << feedback, nextUuid, clock >>
        ELSE /\ nextUuid' = nextUuid + 1
             /\ clock' = clock + 1
             /\ feedback' = feedback \cup { IngestRow(0 - (nextUuid + 1), validated.value, clock) }
             /\ Respond(p, [l EXCEPT !.id = 0 - (nextUuid + 1)], 200, "id")
  /\ UNCHANGED << env, GOLDEN_RECORDS, lastSeed, analysis, eval_runs, eval_cases, vec, started >>

\* handlers.ts:89-97: POST /api/feedback/bulk with an array payload
CallBulk(p, items) ==
  /\ pc[p] = "idle"
  /\ IF ~requireBinding(env.DB)
     THEN Respond(p, [IdleLoc EXCEPT !.op = "bulk"], 500, "Missing binding: DB")
     ELSE Goto(p, "bulk", [IdleLoc EXCEPT !.op = "bulk", !.items = items, !.i = 1])
  /\ UNCHANGED << env, GOLDEN_RECORDS, lastSeed, feedback, analysis, eval_runs, eval_cases, vec,
                  nextUuid, clock, started >>

\* handlers.ts:101-128: one item of the payload. The INSERT of an id that is
\* stored violates the primary key and throws.
BulkItem(p) ==
  /\ pc[p] = "bulk"
  /\ loc[p].i <= Len(loc[p].items)
  /\ LET l == loc[p]
         item == l.items[l.i]
         validated == validateFeedbackInput(
                        [source |-> item.source, title |-> item.title, body |-> item.body,
                         customer_tier |-> item.customer_tier])
         id == IF item.id # 0 THEN item.id ELSE 0 - (nextUuid + 1)
     IN IF validated.error
        THEN /\ Goto(p, "bulk",
                     [l EXCEPT !.skipped = Append(@, [index |-> l.i - 1,
                                                      reason |-> "Validation failed"]),
                               !.i = @ + 1])
             /\ UNCHANGED << feedback, nextUuid, clock >>
        ELSE /\ item.id = 0 => UuidLeft
             /\ ClockLeft
             /\ nextUuid' = IF item.id # 0 THEN nextUuid ELSE nextUuid + 1
             /\ clock' = clock + 1
             /\ IF id \in StoredIds
                THEN /\ Throws(p, l)
                     /\ UNCHANGED feedback
                ELSE /\ feedback' = feedback \cup { IngestRow(id, validated.value, clock) }
                     /\ Goto(p, "bulk", [l EXCEPT !.inserted = Append(@, id), !.i = @ + 1])
  /\ UNCHANGED << env, GOLDEN_RECORDS, lastSeed, analysis, eval_runs, eval_cases, vec, started >>

\* handlers.ts:142: the bulk request returns its lists
BulkReturn(p) ==
  /\ pc[p] = "bulk"
  /\ loc[p].i > Len(loc[p].items)
  /\ Respond(p, loc[p], 200, "inserted")
  /\ UNCHANGED << env, GOLDEN_RECORDS, lastSeed, feedback, analysis, eval_runs, eval_cases, vec,
                  nextUuid, clock, started >>

\* Array.prototype.reverse / ORDER BY rowid DESC
Reverse(seq) == [x \in 1..Len(seq) |-> seq[Len(seq) + 1 - x]]

\* handlers.ts:366: SELECT * FROM eval_runs ORDER BY created_at DESC LIMIT 1:
\* the rows it can return (null for an empty table)
LatestRuns ==
  IF eval_runs = << >> THEN { Null }
  ELSE { Some(eval_runs[x]) : x \in { y \in 1..Len(eval_runs) :
           \A z \in 1..Len(eval_runs) : eval_runs[y].created_at >= eval_runs[z].created_at } }

\* faulty variant: a case with no recall mark counts as failing
FailingCasesNullRecall ==
  Slice(Reverse(SelectSeq(eval_cases,
                          LAMBDA c : c.json_valid = 0 \/ c.theme_valid = 0
                                     \/ c.recall_hit # Some(1))),
        LATEST_LIMIT)

\* handlers.ts:367-369: the failing cases, newest rowid first, LIMIT 10
FailingCases ==
  Slice(Reverse(SelectSeq(eval_cases,
                          LAMBDA c : c.json_valid = 0 \/ c.theme_valid = 0
                                     \/ c.recall_hit = Some(0))),
        LATEST_LIMIT)

\* handlers.ts:363-372 handleEvalLatest
CallLatest(p) ==
  /\ pc[p] = "idle"
  /\ IF ~requireBinding(env.DB)
     THEN Respond(p, [IdleLoc EXCEPT !.op = "latest"], 500, "Missing binding: DB")
     ELSE \E latest \in LatestRuns :
            Respond(p, [IdleLoc EXCEPT !.op = "latest",
                                       !.latest = Some([latest |-> latest,
                                                        failing_cases |-> FailingCases])],
                    200, "latest")
  /\ UNCHANGED << env, GOLDEN_RECORDS, lastSeed, feedback, analysis, eval_runs, eval_cases, vec,
                  nextUuid, clock, started >>

\* the response has been sent: the request is over
Return(p) ==
  /\ pc[p] = "done"
  /\ Goto(p, "idle", IdleLoc)
  /\ lastSeed' = IF loc[p].op = "seed" /\ Val(loc[p].response).status = 200
                 THEN Some([items |-> loc[p].items, inserted |-> loc[p].inserted,
                            skipped |-> loc[p].skipped, after |-> feedback])
                 ELSE lastSeed
  /\ UNCHANGED << env, GOLDEN_RECORDS, feedback, analysis, eval_runs, eval_cases, vec,
                  nextUuid, clock, started >>

(* ---------------------------------------------------------------------- *)
(* Specification: one request at a time                                    *)
(* ---------------------------------------------------------------------- *)
\* the responses of the model the evaluation is run against
ValidPayload ==
  [keys |-> RequiredKeys,
   summary |-> JStr(Padded(<<"logs", "stay", "blank">>, 15)),
   theme |-> JTheme("API ergonomics"),
   sentiment_label |-> JStr(Str(<<"negative">>, 8)),
   sentiment_score |-> JNum(3),
   urgency_score |-> JNum(695),
   proposed_fix |-> JStr(Str(<<"fix", "tail">>, 8)),
   suggested_owner |-> JStr(Str(<<"api">>, 3))]

\* a call of the model that throws an Error with this message
ThrownError(message) ==
  [Response("throw", "none", FALSE, ValidPayload) EXCEPT !.message = message]

AiResponses ==
  { Response("throw", "none", FALSE, ValidPayload),
    Response("text", "none", FALSE, ValidPayload),
    Response("json", "fence", TRUE, ValidPayload),
    Response("json", "none", TRUE, [ValidPayload EXCEPT !.theme = JTheme("Other")]) }

\* the item lists posted to the seed endpoint: the golden set (an empty
\* body), and the golden set with other fields under the same ids
SeedLists ==
  { GOLDEN_SET,
    [i \in 1..Len(GOLDEN_SET) |-> [GOLDEN_SET[i] EXCEPT !.title = Some(Str(<<"edited">>, 6))]] }

\* the steps of an evaluation invocation
EvalStep(p) ==
  \/ CallEvalRun(p)
  \/ SeedSelect(p)
  \/ SeedInsert(p)
  \/ ClassifyStart(p)
  \/ ClassifyFetch(p)
  \/ FirstAttempt(p, AiResponses)
  \/ Retry(p, AiResponses)
  \/ Analyzed(p)
  \/ StoreAnalysis(p)
  \/ Embed(p)
  \/ VecUpsert(p)
  \/ RecallStart(p)
  \/ RecallPair(p)
  \/ RecallDone(p)
  \/ PersistRun(p)
  \/ PersistCase(p)
  \/ EvalRespond(p)

\* the read-only requests
SearchStep(p) ==
  \/ \E q \in Queries : CallSearch(p, q)
  \/ \E id \in StoredIds : CallSimilar(p, id, RECALL_TOP)

Next == EvalStep("p1") \/ SearchStep("p1") \/ Return("p1")

Spec == Init /\ [][Next]_vars

(* ---------------------------------------------------------------------- *)
(* Specification: the seed endpoint, over arbitrary item lists             *)
(* ---------------------------------------------------------------------- *)
RECURSIVE ListsUpTo(_, _)
\* the sequences over S of length at most n
ListsUpTo(S, n) ==
  IF n = 0 THEN { << >> }
  ELSE LET shorter == ListsUpTo(S, n - 1)
       IN shorter \cup { Append(list, x) : list \in shorter, x \in S }

\* items with no id, or the id 1 or 2 (so that lists repeat an id), of every shape
SeedDatasets ==
  ListsUpTo({ SeedItemOf(id, shape, 0) : id \in 0..2, shape \in ItemShapes }, MaxSeedLen)

InitSeed == InitWith({ e \in Envs : e.AI /\ e.VEC }, SeedDatasets, { 0 })

NextSeed ==
  \/ \E items \in SeedLists : CallSeed("p1", items)
  \/ SeedSelect("p1")
  \/ SeedInsert("p1")
  \/ SeedReturn("p1")
  \/ Return("p1")

SpecSeed == InitSeed /\ [][NextSeed]_vars

(* ---------------------------------------------------------------------- *)
(* Specification: the analyze endpoint, over the responses of the model    *)
(* ---------------------------------------------------------------------- *)
Faulty(field, value) == Response("json", "none", TRUE, [ValidPayload EXCEPT ![field] = value])

AllResponses ==
  { Response("throw", "none", FALSE, ValidPayload),
    ThrownError("Missing binding: upstream"),
    Response("text", "none", FALSE, ValidPayload),
    Response("json", "none", FALSE, ValidPayload),
    Response("json", "prose", FALSE, ValidPayload),
    Response("json", "none", TRUE, ValidPayload),
    Response("json", "fence", TRUE, ValidPayload),
    Response("json", "prose", TRUE, ValidPayload) }
  \cup { Faulty("keys", RequiredKeys \ {k}) : k \in { "summary", "suggested_owner" } }
  \cup { Faulty("summary", v) : v \in { JNotStr, JStr(Blank) } }
  \cup { Faulty("theme", v) : v \in { [isString |-> FALSE, name |-> "Dashboard UX"],
                                      JTheme("Other"), JTheme("Dashboard UX") } }
  \cup { Faulty("sentiment_label", v) : v \in { JNotStr, JStr(Blank) } }
  \cup { Faulty("sentiment_score", v) : v \in { JNaN, JNum(0 - 1), JNum(0), JNum(10), JNum(11) } }
  \cup { Faulty("urgency_score", v) :
           v \in { JNaN, JNum(0 - 1), JNum(0), JNum(394), JNum(395), JNum(1000), JNum(1001) } }
  \cup { Faulty("proposed_fix", JNotStr), Faulty("suggested_owner", JNotStr) }

\* one golden record; the store holds the ingested records
InitAi == InitWith(Envs, { <<SeedItemOf(1, "ok", 0)>> }, { MaxIngested })

\* the analyze endpoint is called for the two newest records and an unknown id
NextAi ==
  \/ \E id \in { 0, 1 - MaxIngested, 0 - MaxIngested } : CallAnalyze("p1", id)
  \/ FirstAttempt("p1", AllResponses)
  \/ Retry("p1", AllResponses)
  \/ Analyzed("p1")
  \/ StoreAnalysis("p1")
  \/ Embed("p1")
  \/ VecUpsert("p1")
  \/ Return("p1")

SpecAi == InitAi /\ [][NextAi]_vars

(* ---------------------------------------------------------------------- *)
(* Specification: evaluation runs over a store whose statements may fail   *)
(* ---------------------------------------------------------------------- *)
\* golden datasets of at most two records, over an empty store
InitStore == InitWith(Envs, { d \in GoldenDatasets : Len(d) <= 2 }, { 0 })

NextStore ==
  EvalStep("p1") \/ SeedStoreError("p1") \/ PersistStoreError("p1") \/ Return("p1")

SpecStore == InitStore /\ [][NextStore]_vars

\* every external call returns or raises, and the continuation of an await
\* that has settled is run: a request that can take a step takes one
SpecStoreLive == InitStore /\ [][NextStore]_vars /\ WF_vars(NextStore)

(* ---------------------------------------------------------------------- *)
(* Specification: two analyze requests in flight for the same record       *)
(* ---------------------------------------------------------------------- *)
\* what the model answers: no JSON, or one of two valid payloads
ConcResponses ==
  { Response("text", "none", FALSE, ValidPayload),
    Response("json", "none", TRUE, ValidPayload),
    Faulty("urgency_score", JNum(0)) }

\* a deployment with the store and the model, one ingested record
InitConc == InitWith({ e \in Envs : e.DB /\ e.AI }, { << >> }, { 1 })

NextConc ==
  \E p \in Procs :
    \/ CallAnalyze(p, 0 - 1)
    \/ FirstAttempt(p, ConcResponses)
    \/ Retry(p, ConcResponses)
    \/ Analyzed(p)
    \/ StoreAnalysis(p)
    \/ Embed(p)
    \/ VecUpsert(p)
    \/ Return(p)

SpecConc == InitConc /\ [][NextConc]_vars

(* ---------------------------------------------------------------------- *)
(* Specification: every operation of the API over a small golden dataset   *)
(* ---------------------------------------------------------------------- *)
\* the fields of a seed item as a request body carries them
InputOf(item) ==
  [source |-> item.source, title |-> item.title, body |-> item.body,
   customer_tier |-> item.customer_tier]

\* bodies of POST /api/feedback: one that validates, one that does not
IngestInputs == { InputOf(SeedItemOf(0, shape, 0)) : shape \in { "ok", "blank" } }

\* payloads of POST /api/feedback/bulk: the golden items, the golden items
\* edited, an item with no id after one that fails validation
BulkLists ==
  SeedLists \cup { << InputOf(SeedItemOf(0, "blank", 0)) @@ [id |-> 0],
                      InputOf(SeedItemOf(0, "ok", 0)) @@ [id |-> 0] >> }

\* a golden dataset of one duplicate pair whose second record fails validation
FrameDatasets == { << SeedItemOf(1, "ok", 1), SeedItemOf(2, "blank", 1) >> }

\* what the model answers: no JSON, or a valid payload
FrameResponses ==
  { Response("text", "none", FALSE, ValidPayload),
    Response("json", "none", TRUE, ValidPayload) }

InitFrame == InitWith({ e \in Envs : e.DB /\ e.AI }, FrameDatasets, { MaxIngested })

NextFrame ==
  \/ \E items \in SeedLists : CallSeed("p1", items)
  \/ SeedSelect("p1")
  \/ SeedInsert("p1")
  \/ SeedReturn("p1")
  \/ \E input \in IngestInputs : CallIngest("p1", input)
  \/ \E items \in BulkLists : CallBulk("p1", items)
  \/ BulkItem("p1")
  \/ BulkReturn("p1")
  \/ \E id \in StoredIds : CallAnalyze("p1", id)
  \/ FirstAttempt("p1", FrameResponses)
  \/ Retry("p1", FrameResponses)
  \/ Analyzed("p1")
  \/ StoreAnalysis("p1")
  \/ Embed("p1")
  \/ VecUpsert("p1")
  \/ CallEvalRun("p1")
  \/ ClassifyStart("p1")
  \/ ClassifyFetch("p1")
  \/ RecallStart("p1")
  \/ RecallPair("p1")
  \/ RecallDone("p1")
  \/ PersistRun("p1")
  \/ PersistCase("p1")
  \/ EvalRespond("p1")
  \/ CallLatest("p1")
  \/ SearchStep("p1")
  \/ Return("p1")

SpecFrame == InitFrame /\ [][NextFrame]_vars

(* ---------------------------------------------------------------------- *)
(* Specification: several evaluation runs, then the latest run is fetched  *)
(* ---------------------------------------------------------------------- *)
\* a golden dataset whose first two records are a duplicate pair; fetch-latest
\* requests arrive while the evaluation runs are in progress
LatestDatasets == { [i \in 1..MaxGolden |-> SeedItemOf(i, "ok", IF i <= 2 THEN 1 ELSE 0)] }

\* what the model answers for the record a request is analysing: no JSON
\* for the records of the duplicate pair, no JSON or a valid payload for the
\* others
LatestResponses(p) ==
  IF ~IsNull(loc[p].fb) /\ Val(loc[p].fb).id > 2
  THEN FrameResponses
  ELSE { Response("text", "none", FALSE, ValidPayload) }

InitLatest == InitWith({ e \in Envs : e.DB /\ e.AI }, LatestDatasets, { 0 })

NextLatest ==
  \/ CallEvalRunUpTo("p1", MaxLatestRuns)
  \/ SeedSelect("p1")
  \/ SeedInsert("p1")
  \/ ClassifyStart("p1")
  \/ ClassifyFetch("p1")
  \/ FirstAttempt("p1", LatestResponses("p1"))
  \/ Retry("p1", LatestResponses("p1"))
  \/ Analyzed("p1")
  \/ StoreAnalysis("p1")
  \/ Embed("p1")
  \/ VecUpsert("p1")
  \/ RecallStart("p1")
  \/ RecallPair("p1")
  \/ RecallDone("p1")
  \/ PersistRun("p1")
  \/ PersistCase("p1")
  \/ EvalRespond("p1")
  \/ Return("p1")
  \/ CallLatest("p2")
  \/ Return("p2")

SpecLatest == InitLatest /\ [][NextLatest]_vars

(* ---------------------------------------------------------------------- *)
(* Specification: two seed requests in flight over the same item list      *)
(* ---------------------------------------------------------------------- *)
\* golden datasets of valid items that carry their ids
SeedConcDatasets ==
  { [i \in 1..n |-> SeedItemOf(i, shape, 0)] : n \in 1..MaxSeedLen, shape \in { "ok", "nodate" } }

InitSeedConc == InitWith({ e \in Envs : e.DB }, SeedConcDatasets, { 0 })

NextSeedConc ==
  \E p \in Procs :
    \/ CallSeed(p, GOLDEN_SET)
    \/ SeedSelect(p)
    \/ SeedInsert(p)
    \/ SeedReturn(p)
    \/ Return(p)

SpecSeedConc == InitSeedConc /\ [][NextSeedConc]_vars

(* ---------------------------------------------------------------------- *)
(* Specification: two evaluation invocations in flight on the same store   *)
(* ---------------------------------------------------------------------- *)
\* evaluation invocations that may overlap
MaxConcRuns == 2

\* a golden dataset of one duplicate pair
RunConcDatasets == { [i \in 1..2 |-> SeedItemOf(i, "ok", 1)] }

\* what the model answers for the record a request is analysing: no JSON
\* for the first record of the pair, no JSON or a valid payload for the second
RunConcResponses(p) ==
  IF ~IsNull(loc[p].fb) /\ Val(loc[p].fb).id = 2
  THEN FrameResponses
  ELSE { Response("text", "none", FALSE, ValidPayload) }

InitRunConc == InitWith({ e \in Envs : e.DB /\ e.AI }, RunConcDatasets, { 0 })

NextRunConc ==
  \E p \in Procs :
    \/ CallEvalRunUpTo(p, MaxConcRuns)
    \/ SeedSelect(p)
    \/ SeedInsert(p)
    \/ ClassifyStart(p)
    \/ ClassifyFetch(p)
    \/ FirstAttempt(p, RunConcResponses(p))
    \/ Retry(p, RunConcResponses(p))
    \/ Analyzed(p)
    \/ StoreAnalysis(p)
    \/ Embed(p)
    \/ VecUpsert(p)
    \/ RecallStart(p)
    \/ RecallPair(p)
    \/ RecallDone(p)
    \/ PersistRun(p)
    \/ PersistCase(p)
    \/ EvalRespond(p)
    \/ Return(p)

SpecRunConc == InitRunConc /\ [][NextRunConc]_vars

(* ---------------------------------------------------------------------- *)
(* Specification: buildDuplicatePairs over arbitrary golden records, in a  *)
(* deployment without index whose model never answers JSON                 *)
(* ---------------------------------------------------------------------- *)
\* golden records with any id (or none) and any pairing key (or none), ids
\* and keys may repeat
PairDatasets ==
  ListsUpTo({ SeedItemOf(id, "ok", key) : id \in 0..MaxPairId, key \in 0..MaxPairKey },
            MaxGolden)

InitPairs == InitWith({ e \in Envs : e.DB /\ e.AI /\ ~e.VEC }, PairDatasets, { 0 })

NextPairs ==
  \/ CallEvalRun("p1")
  \/ SeedSelect("p1")
  \/ SeedInsert("p1")
  \/ ClassifyStart("p1")
  \/ ClassifyFetch("p1")
  \/ FirstAttempt("p1", { Response("text", "none", FALSE, ValidPayload) })
  \/ Retry("p1", { Response("text", "none", FALSE, ValidPayload) })
  \/ Analyzed("p1")
  \/ RecallStart("p1")
  \/ PersistRun("p1")
  \/ PersistCase("p1")
  \/ EvalRespond("p1")
  \/ Return("p1")

SpecPairs == InitPairs /\ [][NextPairs]_vars

(* ---------------------------------------------------------------------- *)
(* Properties                                                              *)
(* ---------------------------------------------------------------------- *)
\* the evaluation invocation p has returned its metrics
Completed(p) ==
  /\ pc[p] = "done"
  /\ loc[p].op = "eval"
  /\ Val(loc[p].response).status = 200

\* the rows of a run, in rowid order
RunRowsOf(runId) == SelectSeq(eval_runs, LAMBDA r : r.id = runId)
CaseRowsOf(runId) == SelectSeq(eval_cases, LAMBDA c : c.run_id = runId)

\* the searches the recall pass of p made for the pair k
QueriesFor(p, k) == { j \in 1..Len(loc[p].queries) : loc[p].queries[j].k = k }

\* the pairs whose B was among the top 3 results of the search for A
PairHits(p) ==
  Cardinality({ k \in 1..Len(GOLDEN_PAIRS) :
                  \E j \in QueriesFor(p, k) : GOLDEN_PAIRS[k][2] \in loc[p].queries[j].top3 })

\* what C1 says of a missing A: no search, nothing added to the hits, and
\* one search for every A that is stored
OneSearchPerStoredA(p) ==
  \A k \in 1..Len(GOLDEN_PAIRS) :
    Cardinality(QueriesFor(p, k)) =
      IF env.VEC /\ GOLDEN_PAIRS[k][1] \in StoredIds THEN 1 ELSE 0

\* C1 as stated: recall_at_3 of a run is null when the index is not
\* configured, and otherwise the pairs whose B is among the top 3 results of
\* the search for A over all configured pairs, a number in [0,1].
C1_AsStated ==
  \A p \in Procs :
    Completed(p) =>
      LET recall == RunRowsOf(loc[p].runId)[1].recall_at_3
      IN /\ ~env.VEC => IsNull(recall)
         /\ env.VEC => /\ ~IsNull(recall)
                       /\ Val(recall) = <<PairHits(p), Len(GOLDEN_PAIRS)>>
                       /\ 0 <= Val(recall)[1] /\ Val(recall)[1] <= Val(recall)[2]
         /\ OneSearchPerStoredA(p)

\* C1 amended: recall_at_3 is null when the index is not configured or no
\* duplicate pair is configured; otherwise it is the pairs whose B is among
\* the top 3 results of the search for A over all configured pairs, in
\* [0,1]; a pair whose A is not stored makes no search, adds no hit and
\* still counts in the denominator.
C1_RecallAt3 ==
  \A p \in Procs :
    Completed(p) =>
      LET recall == RunRowsOf(loc[p].runId)[1].recall_at_3
      IN /\ (~env.VEC \/ Len(GOLDEN_PAIRS) = 0) => IsNull(recall)
         /\ (env.VEC /\ Len(GOLDEN_PAIRS) > 0) =>
              /\ ~IsNull(recall)
              /\ Val(recall) = <<PairHits(p), Len(GOLDEN_PAIRS)>>
              /\ 0 <= Val(recall)[1] /\ Val(recall)[1] <= Val(recall)[2]
         /\ OneSearchPerStoredA(p)

\* a run over two pairs, one with a missing A, the other a hit
C1_Witness ==
  \E p \in Procs :
    /\ Completed(p)
    /\ env.VEC
    /\ Len(GOLDEN_PAIRS) = 2
    /\ \E k \in 1..2 : GOLDEN_PAIRS[k][1] \notin StoredIds
    /\ RunRowsOf(loc[p].runId)[1].recall_at_3 = Some(<<1, 2>>)

\* a seed request has ended after an earlier one returned for the same list
SeedAgain(p) ==
  /\ pc[p] = "done"
  /\ loc[p].op = "seed"
  /\ ~IsNull(lastSeed)
  /\ Val(lastSeed).items = loc[p].items

SecondSeedAddsNothing(p) ==
  /\ Val(loc[p].response).status = 200
  /\ loc[p].inserted = << >>
  /\ \A id \in SeqRange(Val(lastSeed).inserted) :
       [id |-> id, reason |-> "Already exists"] \in SeqRange(loc[p].skipped)
  /\ feedback = Val(lastSeed).after

\* C2 as stated: for any item list, a second Seed with the list of a
\* completed Seed inserts nothing, reports the ids the first one inserted as
\* "Already exists" and leaves the stored rows as they were.
C2_AsStated == \A p \in Procs : SeedAgain(p) => SecondSeedAddsNothing(p)

\* C2 amended: the same, for any item list whose items all carry an id.
C2_SeedIdempotent ==
  \A p \in Procs :
    (SeedAgain(p) /\ \A i \in 1..Len(loc[p].items) : loc[p].items[i].id # 0)
      => SecondSeedAddsNothing(p)

\* the second Seed of a list that repeats an id, after a first one that inserted
C2_Witness ==
  \E p \in Procs :
    /\ SeedAgain(p)
    /\ Len(loc[p].items) = 2
    /\ loc[p].items[1].id = loc[p].items[2].id
    /\ loc[p].items[1].id # 0
    /\ Len(Val(lastSeed).inserted) = 1
    /\ Len(loc[p].skipped) = 2

\* every case of the run has been written
RunSettled(runId) == \A p \in Procs : ~(pc[p] = "persist_cases" /\ loc[p].runId = runId)

\* C3: the rates of a persisted run are its cases with json_valid = 1 (with
\* theme_valid = 1) over total_cases, the number of cases recorded; they lie
\* in [0,1] and are 0 when there is no case.
C3_Rates ==
  \A x \in 1..Len(eval_runs) :
    LET run == eval_runs[x]
        cases == CaseRowsOf(run.id)
        jsonValid == Cardinality({ y \in 1..Len(cases) : cases[y].json_valid = 1 })
        themeValid == Cardinality({ y \in 1..Len(cases) : cases[y].theme_valid = 1 })
    IN RunSettled(run.id) =>
         /\ run.total_cases = Len(cases)
         /\ run.json_valid_rate[2] > 0 /\ run.theme_valid_rate[2] > 0
         /\ run.json_valid_rate[1] * run.total_cases
              = jsonValid * run.json_valid_rate[2]
         /\ run.theme_valid_rate[1] * run.total_cases
              = themeValid * run.theme_valid_rate[2]
         /\ run.total_cases > 0 => /\ run.json_valid_rate[2] = run.total_cases
                                   /\ run.theme_valid_rate[2] = run.total_cases
         /\ 0 <= run.json_valid_rate[1] /\ run.json_valid_rate[1] <= run.json_valid_rate[2]
         /\ 0 <= run.theme_valid_rate[1] /\ run.theme_valid_rate[1] <= run.theme_valid_rate[2]
         /\ run.total_cases = 0 => run.json_valid_rate[1] = 0 /\ run.theme_valid_rate[1] = 0

\* a run with fewer cases than golden items, some of them valid and some not
C3_Witness ==
  \E x \in 1..Len(eval_runs) :
    /\ RunSettled(eval_runs[x].id)
    /\ eval_runs[x].total_cases = 3
    /\ Len(GOLDEN_SET) = 4
    /\ eval_runs[x].json_valid_rate = <<2, 3>>

\* the ids of the golden items, in order
GoldenIds == [i \in 1..Len(GOLDEN_SET) |-> GOLDEN_SET[i].id]

\* C4 (state part): a completed invocation has one run row and one case row
\* for each golden item with a stored record, in order, and total_cases
\* counts them; an invocation that did not complete has no run row.
C4_RowsOfRun ==
  \A p \in Procs :
    /\ Completed(p) =>
         /\ Len(RunRowsOf(loc[p].runId)) = 1
         /\ [i \in 1..Len(CaseRowsOf(loc[p].runId)) |-> CaseRowsOf(loc[p].runId)[i].feedback_id]
              = FilterSeq(GoldenIds, StoredIds)
         /\ RunRowsOf(loc[p].runId)[1].total_cases = Len(CaseRowsOf(loc[p].runId))
    /\ (pc[p] = "done" /\ loc[p].op = "eval" /\ ~Completed(p)) =>
         /\ RunRowsOf(loc[p].runId) = << >>
         /\ CaseRowsOf(loc[p].runId) = << >>

\* C4 (frame part): a step appends rows to eval_runs and eval_cases and
\* leaves the rows they hold as they are
C4_RowsKept ==
  /\ Len(eval_runs') >= Len(eval_runs)
  /\ SubSeq(eval_runs', 1, Len(eval_runs)) = eval_runs
  /\ Len(eval_cases') >= Len(eval_cases)
  /\ SubSeq(eval_cases', 1, Len(eval_cases)) = eval_cases

\* C4: every evaluation invocation that completes persists exactly one
\* EvalRun row and one EvalCase row per golden item whose record is stored
\* (none for an item without a record), total_cases being the number of
\* those rows; no step updates or deletes a persisted row.
C4_OneRunItsCases == [](C4_RowsOfRun) /\ [][C4_RowsKept]_vars

\* a completed run over four items, one of them without a record; the
\* request has returned and the rows are still there
C4_Witness ==
  /\ pc["p1"] = "idle"
  /\ Len(eval_runs) = 1
  /\ Len(GOLDEN_SET) = 4
  /\ Len(eval_cases) = 3

\* C5: in the classify pass a failed classification pushes the case
\* (json_valid 0, theme_valid 0, "Analysis failed") and goes on with the
\* next item, never ending the invocation; a successful one pushes a case
\* with json_valid 1 and theme_valid 1 iff the theme is in the taxonomy.
C5_FailureIsolated ==
  [][\A p \in Procs :
       (loc[p].op = "eval"
        /\ pc[p] \in { "ai1", "ai2", "analyzed", "upsert", "embed", "vec_upsert" }) =>
         /\ pc[p] \in { "ai1", "ai2" } => pc'[p] \in { "ai2", "analyzed" }
         /\ (pc[p] = "analyzed" /\ IsNull(Val(loc[p].ai).analysis)) =>
              /\ pc'[p] = "classify_fetch"
              /\ loc'[p].i = loc[p].i + 1
              /\ loc'[p].cases =
                   Append(loc[p].cases,
                          [feedback_id |-> Val(loc[p].fb).id, json_valid |-> 0,
                           theme_valid |-> 0, recall_hit |-> Null,
                           notes |-> Some("Analysis failed")])
              /\ loc'[p].validJsonCount = loc[p].validJsonCount
         /\ (pc[p] \in { "analyzed", "upsert", "embed", "vec_upsert" }
             /\ pc'[p] = "classify_fetch"
             /\ ~IsNull(Val(loc[p].ai).analysis)) =>
              /\ loc'[p].i = loc[p].i + 1
              /\ loc'[p].cases =
                   Append(loc[p].cases,
                          [feedback_id |-> Val(loc[p].fb).id, json_valid |-> 1,
                           theme_valid |-> IF Val(Val(loc[p].ai).analysis).theme
                                                \in THEME_TAXONOMY THEN 1 ELSE 0,
                           recall_hit |-> Null, notes |-> Null])
              /\ loc'[p].validJsonCount = loc[p].validJsonCount + 1
    ]_vars

\* a persisted run whose first item failed classification and whose second
\* item was classified
C5_Witness ==
  \E p \in Procs :
    /\ Completed(p)
    /\ Len(CaseRowsOf(loc[p].runId)) >= 2
    /\ CaseRowsOf(loc[p].runId)[1].json_valid = 0
    /\ CaseRowsOf(loc[p].runId)[1].notes = Some("Analysis failed")
    /\ CaseRowsOf(loc[p].runId)[2].json_valid = 1
    /\ CaseRowsOf(loc[p].runId)[2].theme_valid = 1

\* C6 as stated: a failure of the embedding call or of the index upsert
\* (no usable vector, or an error raised) leaves the analysis row persisted,
\* classify-and-persist successful and the evaluation run going. The row of
\* loc[p] is set from the building of the analysis row until upsertVector
\* returns, so a request that is over with it set ended inside upsertVector.
C6_AsStated ==
  \A p \in Procs :
    (pc[p] = "done" /\ loc[p].op = "eval" /\ ~IsNull(loc[p].row)) =>
      /\ Val(loc[p].row) \in analysis
      /\ Val(loc[p].response).status = 200
      /\ RunRowsOf(loc[p].runId) # << >>

\* C7: without the index nothing fails for its absence: upsertVector makes
\* no embedding call and no index call, searchSimilar returns no items,
\* searchApi returns at most 5 text matches with the note "Vectorize not
\* configured", and an evaluation run with its other bindings completes with
\* its run row and its cases persisted.
C7_IndexOptional ==
  ~env.VEC =>
    /\ vec = {}
    /\ \A p \in Procs :
         /\ pc[p] \notin { "embed", "vec_upsert", "recall" }
         /\ loc[p].queries = << >>
         /\ (pc[p] = "done" /\ loc[p].op = "similar") =>
              /\ Val(loc[p].response).status = 200
              /\ Val(loc[p].result).results = << >>
              /\ Val(loc[p].result).embeds = 0 /\ Val(loc[p].result).lookups = 0
         /\ (pc[p] = "done" /\ loc[p].op = "search" /\ env.DB) =>
              /\ Val(loc[p].response).status = 200
              /\ Val(loc[p].result).note = Some("Vectorize not configured")
              /\ Len(Val(loc[p].result).results) <= 5
              /\ SeqRange(Val(loc[p].result).results) \subseteq StoredIds
              /\ Val(loc[p].result).embeds = 0 /\ Val(loc[p].result).lookups = 0
         /\ (pc[p] = "done" /\ loc[p].op = "eval" /\ env.DB /\ env.AI) =>
              /\ Completed(p)
              /\ Len(RunRowsOf(loc[p].runId)) = 1
              /\ Len(CaseRowsOf(loc[p].runId)) = RunRowsOf(loc[p].runId)[1].total_cases

\* a text search over more than 5 matching records, cut to 5
C7_Witness ==
  \E p \in Procs :
    /\ ~env.VEC
    /\ pc[p] = "done"
    /\ loc[p].op = "search"
    /\ Cardinality(feedback) > 5
    /\ ~IsNull(loc[p].result)
    /\ Len(Val(loc[p].result).results) = 5

\* C8: a run without the index makes no query, has recall_at_3 null, and
\* the case of every configured pair ends with recall_hit null and the note
\* "Vectorize not configured".
C8_RecallUnconfigured ==
  \A p \in Procs :
    (Completed(p) /\ ~env.VEC) =>
      /\ loc[p].queries = << >>
      /\ IsNull(RunRowsOf(loc[p].runId)[1].recall_at_3)
      /\ \A k \in 1..Len(GOLDEN_PAIRS) :
           \A x \in 1..Len(CaseRowsOf(loc[p].runId)) :
             CaseRowsOf(loc[p].runId)[x].feedback_id = GOLDEN_PAIRS[k][1] =>
               /\ IsNull(CaseRowsOf(loc[p].runId)[x].recall_hit)
               /\ CaseRowsOf(loc[p].runId)[x].notes = Some("Vectorize not configured")

\* a run over two pairs without the index, the case of one pair a failed
\* classification and of the other a valid one
C8_Witness ==
  \E p \in Procs :
    /\ Completed(p)
    /\ ~env.VEC
    /\ Len(GOLDEN_PAIRS) = 2
    /\ \A k \in 1..2 :
         \E x \in 1..Len(CaseRowsOf(loc[p].runId)) :
           /\ CaseRowsOf(loc[p].runId)[x].feedback_id = GOLDEN_PAIRS[k][1]
           /\ CaseRowsOf(loc[p].runId)[x].json_valid = k - 1

\* C9: one classification calls the model at most twice: no call without
\* the capability, one call when the first attempt is valid, and a second
\* call exactly when the first attempt gave no validated payload (it threw,
\* did not parse or did not validate); never a third.
C9_AtMostOneRetry ==
  \A p \in Procs :
    /\ loc[p].aiCalls <= 2
    /\ loc[p].aiCalls = Len(loc[p].calls)
    /\ pc[p] = "ai2" =>
         /\ env.AI
         /\ loc[p].aiCalls = 1
         /\ IsNull(AttemptResult(loc[p].calls[1], "Invalid JSON from AI").analysis)
    /\ pc[p] = "analyzed" =>
         loc[p].aiCalls =
           IF ~env.AI THEN 0
           ELSE IF ~IsNull(AttemptResult(loc[p].calls[1], "Invalid JSON from AI").analysis)
           THEN 1 ELSE 2

\* a classification whose first call raised an error and whose retry is valid
C9_Witness ==
  \E p \in Procs :
    /\ pc[p] = "analyzed"
    /\ loc[p].aiCalls = 2
    /\ loc[p].calls[1].kind = "throw"
    /\ ~IsNull(Val(loc[p].ai).analysis)

\* what the validation pipeline lets through
PassedValidation(a) ==
  /\ a.theme \in THEME_TAXONOMY
  /\ StrLen(a.summary) > 0 /\ a.summary.lead = 0 /\ a.summary.trail = 0
  /\ StrLen(a.sentiment_label) > 0 /\ a.sentiment_label.lead = 0 /\ a.sentiment_label.trail = 0
  /\ a.sentiment_score \in 0..10
  /\ a.urgency_score \in 0..100
  /\ a.proposed_fix.lead = 0 /\ a.proposed_fix.trail = 0
  /\ a.suggested_owner.lead = 0 /\ a.suggested_owner.trail = 0

\* C10: classify returns the payload of the first attempt when that is
\* valid, else the payload of the retry with no error when that is valid,
\* else the error of the retry; never an analysis together with an error;
\* a returned analysis passed the validation.
C10_Outcome ==
  \A p \in Procs :
    (pc[p] = "analyzed" /\ env.AI) =>
      LET ai == Val(loc[p].ai)
          first == AttemptResult(loc[p].calls[1], "Invalid JSON from AI")
          retry == AttemptResult(loc[p].calls[2], "Invalid JSON from AI after retry")
      IN /\ IsNull(ai.analysis) # IsNull(ai.error)
         /\ ~IsNull(ai.analysis) => PassedValidation(Val(ai.analysis))
         /\ IF ~IsNull(first.analysis)
            THEN ai.analysis = first.analysis
            ELSE IF ~IsNull(retry.analysis)
            THEN ai.analysis = retry.analysis /\ IsNull(ai.error)
            ELSE IsNull(ai.analysis) /\ ai.error = retry.error

\* a first attempt that is no JSON and a retry with an invalid theme: the
\* error is the one of the retry
C10_Witness ==
  \E p \in Procs :
    /\ pc[p] = "analyzed"
    /\ loc[p].aiCalls = 2
    /\ loc[p].calls[1].kind = "text"
    /\ Val(loc[p].ai).error = Some("Invalid theme")

\* C11 as stated: without the AI capability classify fails at once with
\* "Missing binding: AI" and no call of the model, classify-and-persist
\* writes no analysis row and no index entry, and its error has status 500,
\* which no failure of a configured model has (those have 502).
C11_AsStated ==
  /\ ~env.AI => analysis = {} /\ vec = {}
  /\ \A p \in Procs :
       /\ (pc[p] = "analyzed" /\ ~env.AI) =>
            /\ loc[p].aiCalls = 0
            /\ loc[p].ai = Some(AiError("Missing binding: AI"))
       /\ (pc[p] = "done" /\ loc[p].op = "analyze"
           /\ Val(loc[p].response).body = "AI analysis failed") =>
            /\ Val(loc[p].response).status \in { 500, 502 }
            /\ Val(loc[p].response).status = 500 <=> ~env.AI

\* the evaluation invocation p has ended with its top-level error
Aborted(p) ==
  /\ pc[p] = "done"
  /\ loc[p].op = "eval"
  /\ Val(loc[p].response).body
       \in { "Missing binding: DB", "Missing binding: AI", "Failed to seed golden set" }

\* C12 (state part): without the store or the AI binding the invocation
\* ends with the 500 of the missing binding, nothing is ever classified or
\* persisted, and without the AI binding nothing is seeded; an aborted
\* invocation has taken no run id and pushed no case.
C12_NothingDone ==
  /\ (~env.DB \/ ~env.AI) =>
       /\ analysis = {} /\ vec = {} /\ eval_runs = << >> /\ eval_cases = << >>
       /\ \A r \in feedback : r.id < 0
       /\ \A p \in Procs :
            /\ pc[p] \in { "idle", "done" }
            /\ pc[p] = "done" =>
                 /\ Aborted(p)
                 /\ Val(loc[p].response).status = 500
                 /\ loc[p].inserted = << >> /\ loc[p].skipped = << >>
  /\ \A p \in Procs :
       Aborted(p) =>
         /\ Val(loc[p].response).status = 500
         /\ loc[p].runId = 0
         /\ loc[p].cases = << >>
         /\ loc[p].aiCalls = 0 /\ IsNull(loc[p].fb)

\* C12 (step part): the step on which the Seed step of an evaluation ends
\* with an error is the top-level error "Failed to seed golden set" and
\* writes nothing; no step takes an aborted invocation any further.
C12_AbortStep ==
  \A p \in Procs :
    /\ (loc[p].op = "eval" /\ pc[p] \in { "seed_select", "seed_insert" } /\ pc'[p] = "done") =>
         /\ loc'[p].response = Some([status |-> 500, body |-> "Failed to seed golden set"])
         /\ UNCHANGED << feedback, analysis, eval_runs, eval_cases, vec >>
    /\ Aborted(p) =>
         /\ pc'[p] \in { "done", "idle" }
         /\ UNCHANGED << feedback, analysis, eval_runs, eval_cases, vec >>

\* C12: a missing store or AI binding, or a store error of the Seed step,
\* ends the evaluation invocation with one top-level error; the invocation
\* classifies nothing and writes no EvalRun and no EvalCase row, and with
\* the AI binding missing it seeds nothing.
C12_RunLevelAbort == [](C12_NothingDone) /\ [][C12_AbortStep]_vars

\* the Seed step raised a store error after it had inserted a record
C12_Witness ==
  \E p \in Procs :
    /\ Aborted(p)
    /\ Val(loc[p].response).body = "Failed to seed golden set"
    /\ Len(loc[p].inserted) = 1
    /\ feedback # {}

\* the item the Seed loop of p is at fails validateFeedbackInput
ItemInvalid(p) ==
  validateFeedbackInput([source |-> loc[p].items[loc[p].i].source,
                         title |-> loc[p].items[loc[p].i].title,
                         body |-> loc[p].items[loc[p].i].body,
                         customer_tier |-> loc[p].items[loc[p].i].customer_tier]).error

\* C13 (state part): the items decided so far are each in exactly one of
\* inserted and skipped, no id is inserted twice, and a Seed that returns
\* has decided every item.
C13_EveryItemOnce ==
  \A p \in Procs :
    /\ pc[p] \in { "seed_select", "seed_insert" } =>
         Len(loc[p].inserted) + Len(loc[p].skipped) = loc[p].i - 1
    /\ (pc[p] = "done" /\ loc[p].op = "seed" /\ Val(loc[p].response).status = 200) =>
         Len(loc[p].inserted) + Len(loc[p].skipped) = Len(loc[p].items)
    /\ \A x, y \in 1..Len(loc[p].inserted) :
         loc[p].inserted[x] = loc[p].inserted[y] => x = y

\* C13 (step part): the decision of one item. Its id is its own or a fresh
\* one; a stored id is skipped as "Already exists" whatever its fields are;
\* else an invalid item is skipped as "Validation failed" and nothing is
\* inserted; else one row with the id is inserted.
C13_ItemStep ==
  \A p \in Procs :
    /\ (pc[p] = "seed_select" /\ loc[p].i <= Len(loc[p].items) /\ pc'[p] # "done") =>
         LET own == loc[p].items[loc[p].i].id
             id == IF own # 0 THEN own ELSE 0 - (nextUuid + 1)
         IN IF id \in StoredIds
            THEN /\ pc'[p] = "seed_select"
                 /\ loc'[p].i = loc[p].i + 1
                 /\ loc'[p].skipped =
                      Append(loc[p].skipped, [id |-> id, reason |-> "Already exists"])
                 /\ loc'[p].inserted = loc[p].inserted
                 /\ feedback' = feedback
            ELSE /\ pc'[p] = "seed_insert"
                 /\ loc'[p].id = id
                 /\ loc'[p].i = loc[p].i
                 /\ loc'[p].skipped = loc[p].skipped
                 /\ loc'[p].inserted = loc[p].inserted
                 /\ feedback' = feedback
    /\ (pc[p] = "seed_insert" /\ pc'[p] # "done") =>
         /\ pc'[p] = "seed_select"
         /\ loc'[p].i = loc[p].i + 1
         /\ IF ItemInvalid(p)
            THEN /\ loc'[p].skipped =
                      Append(loc[p].skipped, [id |-> loc[p].id, reason |-> "Validation failed"])
                 /\ loc'[p].inserted = loc[p].inserted
                 /\ feedback' = feedback
            ELSE /\ loc'[p].inserted = Append(loc[p].inserted, loc[p].id)
                 /\ loc'[p].skipped = loc[p].skipped
                 /\ loc[p].id \notin StoredIds
                 /\ \E r \in feedback' : r.id = loc[p].id /\ feedback' = feedback \cup { r }

\* C13: Seed decides each item in list order: a stored id (the item's own,
\* else a fresh one) is skipped as "Already exists" before any validation;
\* else an item failing validation is skipped as "Validation failed" with
\* nothing inserted; else the item is inserted. Each item ends in exactly
\* one list, |inserted| + |skipped| = |items|, and an id repeated in the
\* list is inserted at most once.
C13_SeedDecision == [](C13_EveryItemOnce) /\ [][C13_ItemStep]_vars

\* a list that has the id 1 twice, first with invalid fields and then with
\* valid ones: skipped once, inserted once
C13_Witness ==
  \E p \in Procs :
    /\ pc[p] = "done"
    /\ loc[p].op = "seed"
    /\ Len(loc[p].items) = 2
    /\ loc[p].inserted = <<1>>
    /\ loc[p].skipped = <<[id |-> 1, reason |-> "Validation failed"]>>

\* the response of the model behind the analysis the request p holds
LastResponse(p) == loc[p].calls[Len(loc[p].calls)].parsed.payload

\* C14 (state part): every stored analysis row has a theme of the taxonomy,
\* a sentiment_score in [0,1] (0..10 tenths) and an integer urgency_score
\* in [0,100]
C14_RowsValid ==
  \A r \in analysis :
    /\ r.theme \in THEME_TAXONOMY
    /\ r.sentiment_score \in 0..10
    /\ r.urgency_score \in 0..100

\* C14 (step part): a step that writes the table analysis writes the payload
\* of a response whose theme is in the taxonomy and whose scores are finite
\* and in range
C14_ValidWritten ==
  analysis' # analysis =>
    \E p \in Procs :
      /\ pc[p] = "upsert"
      /\ LastResponse(p).theme.isString
      /\ LastResponse(p).theme.name \in THEME_TAXONOMY
      /\ LastResponse(p).sentiment_score.finite
      /\ LastResponse(p).sentiment_score.tenths \in 0..10
      /\ LastResponse(p).urgency_score.finite
      /\ LastResponse(p).urgency_score.tenths \in 0..1000
      /\ \E r \in analysis' :
           /\ r.feedback_id = Val(loc[p].fb).id
           /\ r.theme = LastResponse(p).theme.name
           /\ r.sentiment_score = LastResponse(p).sentiment_score.tenths
           /\ analysis' \ {r} \subseteq analysis

\* C14: every AnalysisResult in the store has a theme of the taxonomy, a
\* sentiment_score within [0,1] and an integer urgency_score within [0,100];
\* a payload that violates one of these is never persisted.
C14_AnalysisValid == [](C14_RowsValid) /\ [][C14_ValidWritten]_vars

\* rows written from payloads at the edges: urgency 100 and urgency 39.5,
\* which is stored as 40
C14_Witness ==
  /\ \E r \in analysis : r.urgency_score = 100
  /\ \E r \in analysis : r.urgency_score = 40

\* C15: for every urgency score u in 0..100 toSeverity(u) is "high" iff
\* u >= 70, "medium" iff 40 <= u < 70 and "low" iff u < 40; the severity of
\* every stored analysis row is toSeverity of the urgency_score of the row.
C15_Severity ==
  /\ \A u \in 0..100 :
       /\ toSeverity(u) = "high" <=> u >= 70
       /\ toSeverity(u) = "medium" <=> (40 <= u /\ u < 70)
       /\ toSeverity(u) = "low" <=> u < 40
  /\ \A r \in analysis :
       /\ r.urgency_score \in 70..100 => r.severity = "high"
       /\ r.urgency_score \in 40..69 => r.severity = "medium"
       /\ r.urgency_score \in 0..39 => r.severity = "low"
       /\ r.severity \in { "high", "medium", "low" }

\* stored rows on both sides of a threshold: urgency 40 and urgency 39
C15_Witness ==
  /\ \E r \in analysis : r.urgency_score = 40 /\ r.severity = "medium"
  /\ \E r \in analysis : r.urgency_score = 39 /\ r.severity = "low"

\* C16 (state part): at most one analysis row per feedback id
C16_OneRowPerRecord ==
  \A r1, r2 \in analysis : r1.feedback_id = r2.feedback_id => r1 = r2

\* C16 (step part): a step that changes the table analysis is the upsert of
\* one request; it leaves the rows of other records alone and the row of
\* its record is, in every field, the row of the classification the request
\* holds
C16_ReplaceOnConflict ==
  analysis' # analysis =>
    \E p \in Procs :
      /\ pc[p] = "upsert"
      /\ pc'[p] # "upsert"
      /\ LET a == Val(Val(loc[p].ai).analysis)
             row == [feedback_id |-> Val(loc[p].fb).id, summary |-> a.summary,
                     theme |-> a.theme, sentiment_label |-> a.sentiment_label,
                     sentiment_score |-> a.sentiment_score,
                     urgency_score |-> a.urgency_score,
                     severity |-> Val(loc[p].row).severity,
                     suggested_owner |-> a.suggested_owner,
                     proposed_fix |-> a.proposed_fix,
                     analyzed_at |-> Val(loc[p].row).analyzed_at,
                     model |-> "ANALYSIS_MODEL"]
         IN /\ row \in analysis'
            /\ \A r \in analysis' : r.feedback_id = row.feedback_id => r = row
            /\ \A r \in analysis : r.feedback_id # row.feedback_id => r \in analysis'
            /\ \A r \in analysis' : r # row => r \in analysis

\* C16: whatever classify-and-persist operations ran, repeated or
\* concurrent on one record, the store holds at most one analysis row per
\* feedback id, and the row is in all its fields the one of the successful
\* classification written last.
C16_SingleAnalysis == [](C16_OneRowPerRecord) /\ [][C16_ReplaceOnConflict]_vars

\* two requests for one record: the one whose row was built later wrote
\* first and has been overwritten by the other
C16_Witness ==
  \E p \in Procs :
    /\ pc[p] \in { "embed", "vec_upsert" }
    /\ \E r \in analysis :
         /\ r.feedback_id = Val(loc[p].row).feedback_id
         /\ r.analyzed_at < Val(loc[p].row).analyzed_at
         /\ r.urgency_score # Val(loc[p].row).urgency_score

\* C17: a stored feedback record is never changed or removed by any
\* operation, no two stored records share an id, and a Seed of an item whose
\* id is stored leaves the record as it was even when the item's fields differ
C17_UniqueIds == \A r, t \in feedback : r.id = t.id => r = t

C17_RowsKept == [][\A r \in feedback : r \in feedback']_vars

C17_Immutable == [](C17_UniqueIds) /\ C17_RowsKept

\* a seed request has skipped an item whose id is stored with another title
C17_Witness ==
  \E p \in Procs :
    /\ loc[p].op = "seed"
    /\ \E k \in 1..Len(loc[p].skipped), j \in 1..Len(loc[p].items), r \in feedback :
         /\ loc[p].skipped[k] = [id |-> r.id, reason |-> "Already exists"]
         /\ loc[p].items[j].id = r.id
         /\ r.title # validateFeedbackInput(InputOf(loc[p].items[j])).value.title

\* C18: fetch-latest changes no state; it returns the EvalRun with the
\* greatest created_at (null when there is none) and at most 10 EvalCase
\* rows, every one with json_valid = 0, theme_valid = 0 or recall_hit = 0
\* (never a row whose recall_hit is null and whose other flags are 1), the
\* most recently inserted ones, most recent first
IsFailing(c) == c.json_valid = 0 \/ c.theme_valid = 0 \/ c.recall_hit = Some(0)

RowidOf(c) == CHOOSE x \in 1..Len(eval_cases) : eval_cases[x] = c

LatestRunOk(latest) ==
  IF eval_runs = << >> THEN IsNull(latest)
  ELSE /\ ~IsNull(latest)
       /\ \E x \in 1..Len(eval_runs) : eval_runs[x] = Val(latest)
       /\ \A x \in 1..Len(eval_runs) : Val(latest).created_at >= eval_runs[x].created_at

FailingCasesOk(rows) ==
  /\ Len(rows) <= 10
  /\ \A k \in 1..Len(rows) :
       /\ \E x \in 1..Len(eval_cases) : eval_cases[x] = rows[k]
       /\ IsFailing(rows[k])
       /\ ~(IsNull(rows[k].recall_hit) /\ rows[k].json_valid = 1 /\ rows[k].theme_valid = 1)
  /\ \A a, b \in 1..Len(rows) : a < b => RowidOf(rows[a]) > RowidOf(rows[b])
  /\ \A x \in 1..Len(eval_cases) :
       (IsFailing(eval_cases[x]) /\ (Len(rows) < 10 \/ x > RowidOf(rows[Len(rows)])))
         => \E k \in 1..Len(rows) : rows[k] = eval_cases[x]

C18_LatestStep ==
  \A p \in Procs :
    (pc[p] = "idle" /\ loc'[p].op = "latest")
      => /\ UNCHANGED << env, GOLDEN_RECORDS, feedback, analysis, eval_runs, eval_cases, vec,
                         nextUuid, clock, started >>
         /\ Val(loc'[p].response).status = 200
              => /\ LatestRunOk(Val(loc'[p].latest).latest)
                 /\ FailingCasesOk(Val(loc'[p].latest).failing_cases)

C18_FetchLatest == [][C18_LatestStep]_vars

\* a fetch-latest has returned 10 rows, one of them a recall miss, out of
\* more failing rows of several runs, with a passing unmarked row left out
C18_Witness ==
  \E p \in Procs :
    /\ loc[p].op = "latest"
    /\ ~IsNull(loc[p].latest)
    /\ Len(Val(loc[p].latest).failing_cases) = 10
    /\ \E k \in 1..10 : Val(loc[p].latest).failing_cases[k].recall_hit = Some(0)
    /\ Len(eval_runs) >= 2
    /\ Cardinality({ x \in 1..Len(eval_cases) : IsFailing(eval_cases[x]) }) > 10
    /\ \E x \in 1..Len(eval_cases) :
         /\ ~IsFailing(eval_cases[x])
         /\ IsNull(eval_cases[x].recall_hit)
         /\ x > RowidOf(Val(loc[p].latest).failing_cases[10])

\* C19: with the index configured, the recall step of a pair (A,B) whose
\* record A is stored sets recall_hit of A's case to 1 when B is among the
\* top 3 ids of A's query and to 0 otherwise; a miss sets the notes to
\* "Recall miss" whatever they were, a hit leaves them; no other case changes,
\* and the cases of ids that are the A of no pair keep recall_hit = null
IsPairA(id) == \E k \in 1..Len(GOLDEN_PAIRS) : GOLDEN_PAIRS[k][1] = id

C19_PairStep ==
  \A p \in Procs :
    (env.VEC /\ pc[p] = "recall" /\ pc'[p] = "recall" /\ loc'[p].k = loc[p].k + 1)
      => LET idA == GOLDEN_PAIRS[loc[p].k][1]
             idB == GOLDEN_PAIRS[loc[p].k][2]
             before == loc[p].cases
             after == loc'[p].cases
         IN IF ~(\E r \in feedback : r.id = idA) THEN after = before
            ELSE LET top3 == loc'[p].queries[Len(loc'[p].queries)].top3
                     hit == IF idB \in top3 THEN 1 ELSE 0
                 IN /\ Len(after) = Len(before)
                    /\ \E c \in 1..Len(before) : before[c].feedback_id = idA
                    /\ \A c \in 1..Len(before) :
                         after[c] = IF before[c].feedback_id = idA
                                    THEN [before[c] EXCEPT
                                            !.recall_hit = Some(hit),
                                            !.notes = IF hit = 1 THEN before[c].notes
                                                      ELSE Some("Recall miss")]
                                    ELSE before[c]

C19_OthersNull ==
  /\ \A p \in Procs : \A c \in 1..Len(loc[p].cases) :
       ~IsPairA(loc[p].cases[c].feedback_id) => IsNull(loc[p].cases[c].recall_hit)
  /\ \A x \in 1..Len(eval_cases) :
       ~IsPairA(eval_cases[x].feedback_id) => IsNull(eval_cases[x].recall_hit)

C19_RecallMarks == [][C19_PairStep]_vars /\ [](C19_OthersNull)

\* a run has persisted a miss that replaced "Analysis failed", a hit whose
\* case kept its notes, and an unmarked case
C19_Witness ==
  /\ env.VEC
  /\ \E x, y, z \in 1..Len(eval_cases) :
       /\ eval_cases[x].json_valid = 0
       /\ eval_cases[x].recall_hit = Some(0)
       /\ eval_cases[x].notes = Some("Recall miss")
       /\ eval_cases[y].recall_hit = Some(1)
       /\ eval_cases[y].notes # Some("Recall miss")
       /\ IsNull(eval_cases[z].recall_hit)
       /\ ~IsPairA(eval_cases[z].feedback_id)

\* C20: an evaluation invocation goes through Seed, Classify pass, Recall
\* pass, Aggregate & persist in that order and never back; the recall pass
\* starts only when every golden item has been classified and its index
\* upsert is over, so that the index does not change under the recall
\* queries; the EvalRun row is written only when the recall pass is over
StepOf(at) ==
  CASE at \in { "seed_select", "seed_insert" } -> 1
    [] at \in { "classify_fetch", "ai1", "ai2", "analyzed", "upsert", "embed", "vec_upsert" } -> 2
    [] at = "recall" -> 3
    [] at \in { "persist_run", "persist_cases" } -> 4
    [] OTHER -> 5

C20_Step ==
  \A p \in Procs :
    (loc[p].op = "eval" /\ pc[p] # "done")
      => /\ StepOf(pc'[p]) >= StepOf(pc[p])
         /\ StepOf(pc'[p]) \in { StepOf(pc[p]), StepOf(pc[p]) + 1, 5 }
              \/ (~env.VEC /\ StepOf(pc[p]) = 2 /\ StepOf(pc'[p]) = 4)
         /\ (StepOf(pc[p]) = 1 /\ StepOf(pc'[p]) = 2) => loc[p].i > Len(loc[p].items)
         /\ (StepOf(pc[p]) = 2 /\ StepOf(pc'[p]) \in { 3, 4 })
              => /\ pc[p] = "classify_fetch"
                 /\ loc[p].i > Len(GOLDEN_SET)
                 /\ \A x \in 1..Len(GOLDEN_SET) :
                      (\E r \in feedback : r.id = GOLDEN_SET[x].id)
                        => \E c \in 1..Len(loc[p].cases) :
                             loc[p].cases[c].feedback_id = GOLDEN_SET[x].id
         /\ StepOf(pc[p]) >= 3 => vec' = vec
         /\ eval_runs' # eval_runs
              => /\ pc[p] = "persist_run"
                 /\ env.VEC => loc[p].k > Len(GOLDEN_PAIRS)
         /\ StepOf(pc[p]) < 4 => eval_cases' = eval_cases

C20_Sequential == [][C20_Step]_vars

\* a run with the index configured has written index entries, queried the
\* index for a pair and written its EvalRun row
C20_Witness ==
  \E p \in Procs :
    /\ env.VEC
    /\ loc[p].op = "eval"
    /\ pc[p] = "done"
    /\ Val(loc[p].response).status = 200
    /\ Len(loc[p].queries) >= 1
    /\ \E e \in vec : \E c \in 1..Len(loc[p].cases) : loc[p].cases[c].feedback_id = e.id
    /\ \E x \in 1..Len(eval_runs) : eval_runs[x].id = loc[p].runId


\* C21 as stated: a search for the records similar to a stored record X
\* leaves X out of the results it uses: the top 3 ids scored for a duplicate
\* pair (A,B) never contain A, and searchSimilar returns at most `limit`
\* items, none of them X. The recall pass queries through searchApi
\* (handlers.ts:314), which keeps every id the index returns.
C21_AsStated ==
  \A p \in Procs :
    /\ \A j \in 1..Len(loc[p].queries) :
         GOLDEN_PAIRS[loc[p].queries[j].k][1] \notin loc[p].queries[j].top3
    /\ (loc[p].op = "similar" /\ ~IsNull(loc[p].result))
         => /\ Len(Val(loc[p].result).results) <= RECALL_TOP
            /\ loc[p].id \notin SeqRange(Val(loc[p].result).results)

\* C22 as stated: two seed invocations in flight over the same list both end
\* without error, every id is stored once, and each invocation reports each
\* id as inserted or as skipped with "Already exists". Each invocation looks
\* an id up (handlers.ts:36-40) and inserts it later (handlers.ts:53-66): the
\* INSERT of an id the other invocation stored in between violates the
\* primary key.
C22_AsStated ==
  /\ \A r, t \in feedback : r.id = t.id => r = t
  /\ \A p \in Procs :
       (loc[p].op = "seed" /\ pc[p] = "done")
         => /\ Val(loc[p].response).status = 200
            /\ \A j \in 1..Len(loc[p].items) :
                 \/ loc[p].items[j].id \in SeqRange(loc[p].inserted)
                 \/ [id |-> loc[p].items[j].id, reason |-> "Already exists"]
                      \in SeqRange(loc[p].skipped)

\* C23: with two evaluation invocations in flight on the same store, the run
\* ids are distinct, the case rows under the run id of an invocation are the
\* cases that invocation collected, in order, and its run row, written after
\* its last golden item, carries the count and the rates of those cases
InFlightRun(p) == loc[p].op = "eval" /\ loc[p].runId # 0

OwnCaseRows(p, n) ==
  [c \in 1..n |-> [run_id |-> loc[p].runId,
                   feedback_id |-> loc[p].cases[c].feedback_id,
                   json_valid |-> loc[p].cases[c].json_valid,
                   theme_valid |-> loc[p].cases[c].theme_valid,
                   recall_hit |-> loc[p].cases[c].recall_hit,
                   notes |-> loc[p].cases[c].notes]]

C23_OwnRun(p) ==
  LET runs == RunRowsOf(loc[p].runId)
      rows == CaseRowsOf(loc[p].runId)
      jsonValid == Cardinality({ c \in 1..Len(loc[p].cases) : loc[p].cases[c].json_valid = 1 })
      themeValid == Cardinality({ c \in 1..Len(loc[p].cases) : loc[p].cases[c].theme_valid = 1 })
  IN /\ Len(runs) <= 1
     /\ Len(rows) <= Len(loc[p].cases)
     /\ rows = OwnCaseRows(p, Len(rows))
     /\ rows # << >> => runs # << >>
     /\ Completed(p) => Len(runs) = 1 /\ Len(rows) = Len(loc[p].cases)
     /\ runs # << >>
          => /\ loc[p].i > Len(GOLDEN_SET)
             /\ runs[1].total_cases = Len(loc[p].cases)
             /\ runs[1].json_valid_rate = Rate(jsonValid, Len(loc[p].cases))
             /\ runs[1].theme_valid_rate = Rate(themeValid, Len(loc[p].cases))

C23_OwnRuns ==
  /\ \A x, y \in 1..Len(eval_runs) : eval_runs[x].id = eval_runs[y].id => x = y
  /\ \A p, q \in Procs : (InFlightRun(p) /\ InFlightRun(q) /\ p # q)
                             => loc[p].runId # loc[q].runId
  /\ \A p \in Procs : InFlightRun(p) => C23_OwnRun(p)

\* two runs have written their case rows in turn, with different rates
C23_Witness ==
  /\ Len(eval_runs) = 2
  /\ eval_runs[1].json_valid_rate # eval_runs[2].json_valid_rate
  /\ Len(eval_cases) = 4
  /\ eval_cases[1].run_id = eval_cases[3].run_id
  /\ eval_cases[2].run_id = eval_cases[4].run_id
  /\ eval_cases[1].run_id # eval_cases[2].run_id
  /\ \A p \in Procs : Completed(p)

\* the distinct ids of the golden records that carry the pairing key
IdsOfKey(key) ==
  { GOLDEN_RECORDS[x].id : x \in { y \in 1..Len(GOLDEN_RECORDS) :
      GOLDEN_RECORDS[y].duplicate_pair_id = key /\ GOLDEN_RECORDS[y].id # 0 } }

\* the ids of S below id, counted: the place of id in ascending order is one more
Below(S, id) == Cardinality({ x \in S : x < id })

\* the pairs (in any order) that coupling the ascending ids of the key gives
CoupledOfKey(key) ==
  { <<a, b>> \in IdsOfKey(key) \X IdsOfKey(key) :
      /\ Below(IdsOfKey(key), b) = Below(IdsOfKey(key), a) + 1
      /\ Below(IdsOfKey(key), a) % 2 = 0 }

PairsWith(id) ==
  { k \in 1..Len(GOLDEN_PAIRS) : GOLDEN_PAIRS[k][1] = id \/ GOLDEN_PAIRS[k][2] = id }

RECURSIVE HalvesUpTo(_)
HalvesUpTo(key) ==
  IF key = 0 THEN 0 ELSE (Cardinality(IdsOfKey(key)) \div 2) + HalvesUpTo(key - 1)

C24_PairsOfGroups ==
  /\ \A k \in 1..Len(GOLDEN_PAIRS) :
       /\ GOLDEN_PAIRS[k][1] # GOLDEN_PAIRS[k][2]
       /\ GOLDEN_PAIRS[k][1] # 0 /\ GOLDEN_PAIRS[k][2] # 0
       /\ \E key \in 1..MaxPairKey : GOLDEN_PAIRS[k] \in CoupledOfKey(key)
  /\ \A key \in 1..MaxPairKey : \A pair \in CoupledOfKey(key) :
       \E k \in 1..Len(GOLDEN_PAIRS) : GOLDEN_PAIRS[k] = pair
  /\ Len(GOLDEN_PAIRS) = HalvesUpTo(MaxPairKey)

\* C24 as stated: the pairs are the ascending distinct ids of each pairing
\* key coupled (1st,2nd), (3rd,4th), ..., floor(n/2) pairs for n ids, none
\* from a record without id or key, and no id occurs in more than one pair
C24_AsStated ==
  /\ C24_PairsOfGroups
  /\ \A id \in 1..MaxPairId : Cardinality(PairsWith(id)) <= 1

\* C24, amended: as stated, but an id occurs in at most one pair of each
\* pairing key; it occurs in one pair only when all the records that carry
\* it have the same pairing key
C24_PairsPerKey ==
  /\ C24_PairsOfGroups
  /\ \A key \in 1..MaxPairKey : \A id \in 1..MaxPairId :
       Cardinality({ pair \in CoupledOfKey(key) : pair[1] = id \/ pair[2] = id }) <= 1
  /\ \A id \in 1..MaxPairId :
       Cardinality({ key \in 1..MaxPairKey : id \in IdsOfKey(key) }) <= 1
         => Cardinality(PairsWith(id)) <= 1

\* the evaluation run has used the pairs of a dataset with a group of three
\* ids, entered out of order, and a record without id that carries the key
C24_Witness ==
  /\ pc["p1"] = "persist_run"
  /\ \E key \in 1..MaxPairKey :
       /\ Cardinality(IdsOfKey(key)) = 3
       /\ \E x \in 1..Len(GOLDEN_RECORDS) :
            GOLDEN_RECORDS[x].id = 0 /\ GOLDEN_RECORDS[x].duplicate_pair_id = key
  /\ GOLDEN_RECORDS[1].id > GOLDEN_RECORDS[2].id
  /\ GOLDEN_RECORDS[2].id # 0
  /\ Len(GOLDEN_PAIRS) = 1

\* whether the recall step of the pair (idA, idB) can count a hit in this
\* state: idA is stored and some answer of the search for its text has idB
\* among its first three results (handlers.ts:311-317)
CanHit(idA, idB) ==
  /\ idA \in StoredIds
  /\ \E similar \in searchApi("text of A") :
       ~similar.threw /\ idB \in SeqRange(Slice(similar.results, RECALL_TOP))

\* C25 as stated: the recall outcome of a duplicate pair is the same when
\* its two ids are swapped; so a pair that a run counted as a hit can be a
\* hit the other way round, in the same store and index state. The recall
\* step queries for the first id only and looks for the second (handlers.ts:
\* 312-316): when the first id has no index entry and the second has one,
\* only one direction can hit.
C25_AsStated ==
  \A p \in Procs :
    (loc[p].op = "eval" /\ pc[p] \in { "recall", "persist_run" })
      => \A j \in 1..Len(loc[p].queries) :
           LET pair == GOLDEN_PAIRS[loc[p].queries[j].k]
           IN pair[2] \in loc[p].queries[j].top3 => CanHit(pair[2], pair[1])

\* C26: in every case of an evaluation run, collected or persisted,
\* theme_valid equals json_valid, and in every persisted run
\* theme_valid_rate equals json_valid_rate
C26_ThemeFollowsJson ==
  /\ \A p \in Procs : \A c \in 1..Len(loc[p].cases) :
       loc[p].cases[c].theme_valid = loc[p].cases[c].json_valid
  /\ \A p \in Procs : loc[p].validThemeCount = loc[p].validJsonCount
  /\ \A x \in 1..Len(eval_cases) : eval_cases[x].theme_valid = eval_cases[x].json_valid
  /\ \A x \in 1..Len(eval_runs) : eval_runs[x].theme_valid_rate = eval_runs[x].json_valid_rate

\* a persisted run with a classified case and a failed one, both written
C26_Witness ==
  /\ \E x \in 1..Len(eval_runs) :
       /\ eval_runs[x].json_valid_rate[1] >= 1
       /\ eval_runs[x].json_valid_rate[1] < eval_runs[x].total_cases
       /\ RunSettled(eval_runs[x].id)
  /\ \E x, y \in 1..Len(eval_cases) :
       /\ eval_cases[x].json_valid = 1 /\ eval_cases[x].theme_valid = 1
       /\ eval_cases[y].json_valid = 0 /\ eval_cases[y].theme_valid = 0

\* C27: while a record is being classified nothing is written, and when the
\* classification has failed (both attempts invalid, the model call failed,
\* or no AI binding) classify-and-persist returns with the store and the
\* index as they were and without reaching the embedding or the index call
C27_FailedStep ==
  \A p \in Procs :
    /\ (pc[p] \in { "ai1", "ai2" } /\ pc'[p] # pc[p])
         => UNCHANGED << feedback, analysis, vec, eval_runs, eval_cases >>
    /\ (pc[p] = "analyzed" /\ IsNull(Val(loc[p].ai).analysis) /\ pc'[p] # pc[p])
         => /\ UNCHANGED << feedback, analysis, vec, eval_runs, eval_cases >>
            /\ pc'[p] \notin { "upsert", "embed", "vec_upsert" }
            /\ loc[p].op = "analyze"
                 => /\ pc'[p] = "done"
                    /\ Val(loc'[p].response).status \in { 500, 502 }

C27_FailureWritesNothing == [][C27_FailedStep]_vars

\* an analyze request has failed for a record whose analysis and index entry
\* were stored by an earlier request, and both are there
C27_Witness ==
  \E p \in Procs :
    /\ loc[p].op = "analyze"
    /\ pc[p] = "done"
    /\ Val(loc[p].response).status = 502
    /\ \E r \in analysis : r.feedback_id = loc[p].id
    /\ \E e \in vec : e.id = loc[p].id

\* C28: every id in the index has a feedback record and an analysis row in
\* the store, an entry is written only for a record whose analysis row is
\* already there, and the index holds one entry per id
C28_EntriesBacked ==
  /\ \A e \in vec : /\ e.id \in StoredIds
                     /\ \E r \in analysis : r.feedback_id = e.id
  /\ \A e, f \in vec : e.id = f.id => e = f

C28_WrittenAfterAnalysis ==
  \A e \in vec' \ vec : \E r \in analysis : r.feedback_id = e.id

C28_IndexBacked == [](C28_EntriesBacked) /\ [][C28_WrittenAfterAnalysis]_vars

\* the entry of a record has been replaced by the entry of a later analysis
\* with another theme
C28_Witness ==
  \E p \in Procs :
    /\ loc[p].op = "analyze"
    /\ pc[p] = "done"
    /\ Val(loc[p].response).status = 200
    /\ \E e \in vec : e.id = loc[p].id /\ e.theme = "Dashboard UX"
    /\ \E r \in analysis : r.feedback_id = loc[p].id /\ r.analyzed_at > MaxIngested + 1

\* C29: in every state, also after a write of the persisting step has
\* failed, the run_id of every stored case row is the id of a stored run
\* row, a run has no more case rows than its total_cases, and no step takes
\* a stored run row or case row back
C29_CasesOfStoredRuns ==
  /\ \A x \in 1..Len(eval_cases) :
       \E y \in 1..Len(eval_runs) : eval_runs[y].id = eval_cases[x].run_id
  /\ \A y \in 1..Len(eval_runs) :
       Len(CaseRowsOf(eval_runs[y].id)) <= eval_runs[y].total_cases

C29_NothingTakenBack ==
  /\ \A y \in 1..Len(eval_runs) : \E z \in 1..Len(eval_runs') : eval_runs'[z] = eval_runs[y]
  /\ \A x \in 1..Len(eval_cases) : \E z \in 1..Len(eval_cases') : eval_cases'[z] = eval_cases[x]

C29_PartialPersist == [](C29_CasesOfStoredRuns) /\ [][C29_NothingTakenBack]_vars

\* an invocation has ended with an error after its run row and some, not
\* all, of its case rows were written
C29_Witness ==
  \E p \in Procs :
    /\ loc[p].op = "eval"
    /\ pc[p] = "done"
    /\ Val(loc[p].response).status = 500
    /\ Len(RunRowsOf(loc[p].runId)) = 1
    /\ Len(CaseRowsOf(loc[p].runId)) >= 1
    /\ Len(CaseRowsOf(loc[p].runId)) < RunRowsOf(loc[p].runId)[1].total_cases

\* C30: when every external call returns or raises, an evaluation
\* invocation ends with one response, the metrics of the run or an error,
\* after at most two model calls for a golden item and at most one
\* similarity query for a duplicate pair
C30_Bounded ==
  \A p \in Procs :
    /\ loc[p].aiCalls <= 2
    /\ \A k \in 1..Len(GOLDEN_PAIRS) : Cardinality(QueriesFor(p, k)) <= 1
    /\ Len(loc[p].queries) <= Len(GOLDEN_PAIRS)
    /\ pc[p] = "done" <=> ~IsNull(loc[p].response)
    /\ (pc[p] = "done" /\ loc[p].op = "eval")
         => Val(loc[p].response).status \in { 200, 500 }

C30_Terminates ==
  /\ [](C30_Bounded)
  /\ \A p \in Procs : (loc[p].op = "eval" /\ pc[p] # "done") ~> (pc[p] = "done")

\* an invocation with two cases whose recall pass made a query has written
\* its run row and ended with the error of a failed case write
C30_Witness ==
  \E p \in Procs :
    /\ loc[p].op = "eval"
    /\ pc[p] = "done"
    /\ Val(loc[p].response).status = 500
    /\ Len(loc[p].queries) >= 1
    /\ Len(loc[p].cases) >= 2
    /\ Len(RunRowsOf(loc[p].runId)) = 1

====
